---- MODULE Spec2Model ----
(***************************************************************************)
(* Model of pgxm's build pipeline (src/src/pgxm/build.py, PgxmBuilder) and *)
(* of the CLI command that drives it (src/src/pgxm/cli.py).                *)
(*                                                                         *)
(* Strings are sequences of tokens.  A token is either a separator         *)
(* character ("/", "\\", " ", ",") or an atom: a run of characters that    *)
(* holds no separator.  The empty string is << >>; Python's truthiness of  *)
(* a string is "not empty".                                                *)
(***************************************************************************)
EXTENDS Integers, Sequences, FiniteSets, TLC

(***************************************************************************)
(* Bounds of the model.                                                    *)
(***************************************************************************)
\* paths the engine's diff may report as changed in one build
MaxChanged == 1

\* build() calls made on one PgxmBuilder instance
MaxBuilds == 2

\* build invocations running side by side against one engine
MaxProcs == 2

(***************************************************************************)
(* Strings.                                                                *)
(***************************************************************************)
Range(s) == {s[i] : i \in 1..Len(s)}

Truthy(s) == s # << >>

IsWS(t) == t \in {" ", "\t", "\n"}

\* str.split() with no argument: the maximal runs of non-whitespace tokens
RECURSIVE SplitWSAcc(_, _, _)
SplitWSAcc(s, cur, acc) ==
    IF s = << >>
    THEN IF cur = << >> THEN acc ELSE Append(acc, cur)
    ELSE IF IsWS(Head(s))
         THEN SplitWSAcc(Tail(s), << >>,
                         IF cur = << >> THEN acc ELSE Append(acc, cur))
         ELSE SplitWSAcc(Tail(s), Append(cur, Head(s)), acc)

SplitWS(s) == SplitWSAcc(s, << >>, << >>)

\* s without its leading tokens of the set cs
RECURSIVE LStrip(_, _)
LStrip(s, cs) ==
    IF s # << >> /\ Head(s) \in cs THEN LStrip(Tail(s), cs) ELSE s

\* s without its trailing tokens of the set cs
RECURSIVE RStrip(_, _)
RStrip(s, cs) ==
    IF s # << >> /\ s[Len(s)] \in cs THEN RStrip(SubSeq(s, 1, Len(s) - 1), cs)
    ELSE s

\* str.strip(): with no argument whitespace is stripped, the newline included
WhiteSpace == {" ", "\t", "\n"}
Strip(s) == RStrip(LStrip(s, WhiteSpace), WhiteSpace)

\* str.strip("'\"")
StripQuotes(s) == RStrip(LStrip(s, {"'", "\""}), {"'", "\""})

\* the position of the first token t of s (0 when s has none)
IndexOf(s, t) ==
    IF \E i \in 1..Len(s) : s[i] = t
    THEN CHOOSE i \in 1..Len(s) : s[i] = t /\ \A j \in 1..(i - 1) : s[j] # t
    ELSE 0

\* s.split(sep)[-1]: what follows the last sep (all of s when it has none)
RECURSIVE LastSegment(_, _)
LastSegment(s, sep) ==
    IF \E i \in 1..Len(s) : s[i] = sep
    THEN LastSegment(Tail(s), sep)
    ELSE s

\* s.replace("\\", "/")
ReplaceBackslash(s) == [i \in 1..Len(s) |-> IF s[i] = "\\" THEN "/" ELSE s[i]]

\* pathlib.Path(...).name on a POSIX host: the last "/"-separated component
PathName(p) == LastSegment(p, "/")

(***************************************************************************)
(* Program constants (build.py:22-24) and literals.                        *)
(***************************************************************************)
DEFAULT_PG_VERSION == <<"15">>
MANIFEST_FILENAME == <<"manifest.json">>
UNKNOWN_EXTENSION == <<"unknown-extension">>
FALLBACK_VERSION == <<"0.0.1">>
MAKE_INSTALL == <<"make", " ", "install">>
ECHO_PLACEHOLDER == <<"echo", " ", "'No", " ", "standard", " ", "install",
                      " ", "command", " ", "found.'">>

(***************************************************************************)
(* Exceptions: a type and a message (a sequence of fragments; wrapping an  *)
(* error as f"<prefix>: {e}" keeps e's fragments after the prefix).        *)
(***************************************************************************)
NoExc == [type |-> "none", msg |-> << >>]

Exc(t, m) == [type |-> t, msg |-> m]

Wrap(t, prefix, e) == [type |-> t, msg |-> <<prefix>> \o e.msg]

\* class PgxmBuilderError and its two subclasses
BuilderErrorTypes ==
    {"PgxmBuilderError", "PgxmBuilderConfigError", "PgxmBuilderDockerError"}

IsBuilderError(e) == e.type \in BuilderErrorTypes

\* errors the container engine's client raises
EngineError == Exc("APIError", <<"engine">>)

\* errors of the host's file system
HostError == Exc("OSError", <<"host">>)

(***************************************************************************)
(* Options (the keyword arguments of PgxmBuilder) and control-file data.   *)
(* An option that may be None where None and "" behave differently is      *)
(* << >> for None and <<s>> for the string s.                              *)
(***************************************************************************)
None == << >>
Some(s) == <<s>>

\* dict.get(key, default)
Get(d, k, default) == IF k \in DOMAIN d THEN d[k] ELSE default

\* the mapping of a control file that holds no key = value line
NoControlData == [k \in {} |-> << >>]

\* a line of a control file: key = 'value', with the newline that ends it
Line(key, value) ==
    <<key, " ", "=", " ", "'">> \o value \o <<"'", "\n">>

\* the control files the builds of Spec read: an empty one, one with a
\* blank comment only, and a full one
ControlFiles ==
    { << >>,
      << Line("comment", <<" ">>) >>,
      << Line("comment", <<"Foo", " ", "ext">>),
         Line("default_version", <<"2.1.0">>),
         Line("module_pathname", <<"$libdir", "/", "foo">>) >> }

\* install commands given with -i
InstallCommandOpts == { << >>, <<"sh", " ", "build.sh">> }

\* option sets a builder is constructed with
OptionSets ==
    [ test : BOOLEAN,
      install_command : InstallCommandOpts,
      dockerfile : { << >>, <<"Dockerfile.alt">> },
      name : { << >> },
      extension_name : { << >> },
      version : { << >> },
      pg_version : { DEFAULT_PG_VERSION },
      extension_dependencies : { None, Some(<<"dep">>) },
      preload_libraries : { Some(<< >>) } ]

(***************************************************************************)
(* What resolution reads from the host's file system.                      *)
(***************************************************************************)
FsFacts ==
    [ pathExists : BOOLEAN,
      mkdirOk : BOOLEAN,
      control : {"missing", "unreadable", "found"},
      file : ControlFiles,
      dockerfileOptExists : BOOLEAN,
      srcDockerfileExists : BOOLEAN,
      makefileExists : BOOLEAN ]

(***************************************************************************)
(* Calls the builder makes on its collaborators, as it issues them: the    *)
(* Container Engine Gateway's operations and the host file-system          *)
(* operations.  A call is logged with the identifier it targets (0 when    *)
(* it has none), its argument or what it returned (an argv, a list of      *)
(* paths; for a host operation the path), its environment (exec only) and  *)
(* how it ended.  The read of the control file is logged with the lines it *)
(* returned.                                                               *)
(***************************************************************************)
CallEnv(op, id, argv, env, out) ==
    [op |-> op, id |-> id, argv |-> argv, env |-> env, out |-> out]

Call(op, id, argv, out) == CallEnv(op, id, argv, << >>, out)

\* a host file-system operation on path p
Host(op, p, out) == CallEnv(op, 0, p, << >>, out)

HostOps ==
    {"path_exists", "mkdir", "find_control_file", "read_control_file",
     "dockerfile_exists", "makefile_exists", "write_manifest", "tar_open",
     "host_path_exists", "tar_add"}

IsEngineCall(c) == c.op \notin HostOps

YesNo(x) == IF x THEN "yes" ELSE "no"

(***************************************************************************)
(* The builder's fields after __init__ (build.py:69-81).  Identifiers of   *)
(* images and containers are positive numbers, 0 is None.                  *)
(***************************************************************************)
NewBuilder ==
    [ extension_path |-> FALSE,
      output_dir |-> FALSE,
      control_data |-> NoControlData,
      final_name |-> << >>,
      final_version |-> << >>,
      dockerfile_path_obj |-> "none",
      final_install_command |-> << >>,
      docker_client |-> FALSE,
      image_id |-> 0,
      container_id |-> 0,
      validated |-> FALSE ]

\* the result of a step: the builder after it, the exception it raised
\* (NoExc when it returned) and the calls it made
Res(b, e, c) == [b |-> b, exc |-> e, calls |-> c]

\* the statement that ended as r followed by the next statement, which ends
\* as n when run on r's builder: n is not run when r raised
Then(r, n) ==
    IF r.exc # NoExc THEN r
    ELSE Res(n.b, n.exc, r.calls \o n.calls)

(***************************************************************************)
(* Configuration Resolver (build.py:83-213).                               *)
(***************************************************************************)
\* _resolve_paths
ResolvePaths(b, fs) ==
    LET c1 == <<Host("path_exists", <<"source">>, YesNo(fs.pathExists))>>
        c2 == Append(c1, Host("mkdir", <<"output">>,
                              IF fs.mkdirOk THEN "ok" ELSE "raise"))
    IN  IF ~fs.pathExists
        THEN Res([b EXCEPT !.extension_path = TRUE],
                 Exc("PgxmBuilderConfigError", <<"Extension path does not exist">>),
                 c1)
        ELSE IF ~fs.mkdirOk
        THEN Res([b EXCEPT !.extension_path = TRUE, !.output_dir = TRUE],
                 HostError, c2)
        ELSE Res([b EXCEPT !.extension_path = TRUE, !.output_dir = TRUE],
                 NoExc, c2)

\* the body of the loop of _read_control_file_data, build.py:138-142: the
\* mapping cd after the line.  The keys of the files read are one token.
ReadLine(cd, line) ==
    LET l == Strip(line)
        eq == IndexOf(l, "=")
        key == Strip(SubSeq(l, 1, eq - 1))
        value == StripQuotes(Strip(SubSeq(l, eq + 1, Len(l))))
    IN  IF l # << >> /\ l[1] # "#" /\ eq # 0
        THEN [k \in DOMAIN cd \cup {key[1]} |->
                 IF k = key[1] THEN value ELSE cd[k]]
        ELSE cd

\* _read_control_file_data on a file that can be read: the mapping after
\* lines i.. of the file, cd being the mapping before them
RECURSIVE ReadControlFileData(_, _, _)
ReadControlFileData(lines, i, cd) ==
    IF i > Len(lines) THEN cd
    ELSE ReadControlFileData(lines, i + 1, ReadLine(cd, lines[i]))

\* faulty variant of ReadControlFile: FileNotFoundError is not caught
ReadControlFileUncaught(b, fs) ==
    IF fs.control = "missing"
    THEN Res(b, Exc("FileNotFoundError", <<"No .control file found">>),
             <<Host("find_control_file", <<"source">>, "no")>>)
    ELSE Res([b EXCEPT !.control_data =
                           ReadControlFileData(fs.file, 1, NoControlData)],
             NoExc,
             <<Host("find_control_file", <<"source">>, "yes"),
               Host("read_control_file", fs.file, "ok")>>)

\* _read_control_file, with _find_control_file and _read_control_file_data
ReadControlFile(b, fs) ==
    LET c1 == <<Host("find_control_file", <<"source">>,
                     YesNo(fs.control # "missing"))>>
        c2 == Append(c1, Host("read_control_file",
                              IF fs.control = "found" THEN fs.file ELSE << >>,
                              IF fs.control = "found" THEN "ok" ELSE "raise"))
    IN  IF ~b.extension_path
        THEN Res(b, Exc("PgxmBuilderError",
                        <<"Paths must be resolved before reading control file.">>),
                 << >>)
        ELSE CASE fs.control = "missing" ->
                    Res(b, Exc("PgxmBuilderConfigError",
                               <<"No .control file found">>), c1)
               [] fs.control = "unreadable" -> Res(b, HostError, c2)
               [] OTHER -> Res([b EXCEPT !.control_data =
                                      ReadControlFileData(fs.file, 1, NoControlData)],
                               NoExc, c2)

\* the name chosen at build.py:156-162
OverrideName(opts) ==
    IF Truthy(opts.extension_name) THEN opts.extension_name ELSE opts.name

FromModulePathname(cd) == LastSegment(Get(cd, "module_pathname", << >>), "/")

CommentWords(cd) == SplitWS(Get(cd, "comment", UNKNOWN_EXTENSION))

\* whether .split()[0] at build.py:160 is evaluated and raises IndexError
FinalNameRaises(opts, cd) ==
    /\ ~Truthy(OverrideName(opts))
    /\ ~Truthy(FromModulePathname(cd))
    /\ CommentWords(cd) = << >>

FinalName(opts, cd) ==
    IF Truthy(OverrideName(opts)) THEN OverrideName(opts)
    ELSE IF Truthy(FromModulePathname(cd)) THEN FromModulePathname(cd)
    ELSE IF Truthy(CommentWords(cd)[1]) THEN CommentWords(cd)[1]
    ELSE UNKNOWN_EXTENSION

\* faulty variant of FinalVersion: no fallback after the control file
FinalVersionNoFallback(opts, cd) ==
    IF Truthy(opts.version) THEN opts.version
    ELSE Get(cd, "default_version", << >>)

\* faulty variant of FinalVersion: the control file comes before the option
FinalVersionControlFirst(opts, cd) ==
    IF Truthy(Get(cd, "default_version", << >>))
    THEN Get(cd, "default_version", << >>)
    ELSE IF Truthy(opts.version) THEN opts.version
    ELSE FALLBACK_VERSION

FinalVersion(opts, cd) ==
    IF Truthy(opts.version) THEN opts.version
    ELSE IF Truthy(Get(cd, "default_version", << >>))
         THEN Get(cd, "default_version", << >>)
    ELSE FALLBACK_VERSION

\* _determine_name_and_version
DetermineNameAndVersion(b, opts) ==
    IF DOMAIN b.control_data = {}
    THEN Res(b, Exc("PgxmBuilderError",
                    <<"Control file must be read before determining name/version.">>),
             << >>)
    ELSE IF FinalNameRaises(opts, b.control_data)
    THEN Res(b, Exc("IndexError", <<"list index out of range">>), << >>)
    ELSE Res([b EXCEPT !.final_name = FinalName(opts, b.control_data),
                       !.final_version = FinalVersion(opts, b.control_data)],
             NoExc, << >>)

\* faulty variant of LocateDockerfile: a Dockerfile option that names no
\* file is an error
LocateDockerfileStrict(b, opts, fs) ==
    LET c1 == IF Truthy(opts.dockerfile)
              THEN <<Host("dockerfile_exists", opts.dockerfile,
                          YesNo(fs.dockerfileOptExists))>>
              ELSE << >>
        c2 == Append(c1, Host("dockerfile_exists", <<"source", "/", "Dockerfile">>,
                              YesNo(fs.srcDockerfileExists)))
    IN  IF Truthy(opts.dockerfile) /\ fs.dockerfileOptExists
        THEN Res([b EXCEPT !.dockerfile_path_obj = "option"], NoExc, c1)
        ELSE IF Truthy(opts.dockerfile)
        THEN Res(b, Exc("PgxmBuilderConfigError", <<"No Dockerfile found.">>), c1)
        ELSE IF fs.srcDockerfileExists
        THEN Res([b EXCEPT !.dockerfile_path_obj = "source"], NoExc, c2)
        ELSE Res(b, Exc("PgxmBuilderConfigError", <<"No Dockerfile found.">>), c2)

\* _locate_dockerfile
LocateDockerfile(b, opts, fs) ==
    LET c1 == IF Truthy(opts.dockerfile)
              THEN <<Host("dockerfile_exists", opts.dockerfile,
                          YesNo(fs.dockerfileOptExists))>>
              ELSE << >>
        c2 == Append(c1, Host("dockerfile_exists", <<"source", "/", "Dockerfile">>,
                              YesNo(fs.srcDockerfileExists)))
    IN  IF ~b.extension_path
        THEN Res(b, Exc("PgxmBuilderError",
                        <<"Paths must be resolved before locating Dockerfile.">>),
                 << >>)
        ELSE IF Truthy(opts.dockerfile) /\ fs.dockerfileOptExists
        THEN Res([b EXCEPT !.dockerfile_path_obj = "option"], NoExc, c1)
        ELSE IF fs.srcDockerfileExists
        THEN Res([b EXCEPT !.dockerfile_path_obj = "source"], NoExc, c2)
        ELSE Res(b, Exc("PgxmBuilderConfigError", <<"No Dockerfile found.">>), c2)

\* _determine_install_command
DetermineInstallCommand(b, opts, fs) ==
    IF Truthy(opts.install_command)
    THEN Res([b EXCEPT !.final_install_command = opts.install_command],
             NoExc, << >>)
    ELSE IF b.extension_path /\ fs.makefileExists
    THEN Res([b EXCEPT !.final_install_command = MAKE_INSTALL], NoExc,
             <<Host("makefile_exists", <<"source", "/", "Makefile">>, "yes")>>)
    ELSE Res([b EXCEPT !.final_install_command = ECHO_PLACEHOLDER], NoExc,
             IF b.extension_path
             THEN <<Host("makefile_exists", <<"source", "/", "Makefile">>, "no")>>
             ELSE << >>)

\* faulty variant of Validate: no guard, resolution runs on every call
ValidateAlways(b, opts, fs) ==
    LET r1 == ResolvePaths(b, fs)
        r2 == Then(r1, ReadControlFile(r1.b, fs))
        r3 == Then(r2, DetermineNameAndVersion(r2.b, opts))
        r4 == Then(r3, LocateDockerfile(r3.b, opts, fs))
        r5 == Then(r4, DetermineInstallCommand(r4.b, opts, fs))
    IN  IF r5.exc # NoExc THEN r5
        ELSE Res([r5.b EXCEPT !.validated = TRUE], NoExc, r5.calls)

\* _validate
Validate(b, opts, fs) ==
    IF b.validated
    THEN Res(b, NoExc, << >>)
    ELSE LET r1 == ResolvePaths(b, fs)
             r2 == Then(r1, ReadControlFile(r1.b, fs))
             r3 == Then(r2, DetermineNameAndVersion(r2.b, opts))
             r4 == Then(r3, LocateDockerfile(r3.b, opts, fs))
             r5 == Then(r4, DetermineInstallCommand(r4.b, opts, fs))
         IN  IF r5.exc # NoExc THEN r5
             ELSE Res([r5.b EXCEPT !.validated = TRUE], NoExc, r5.calls)

(***************************************************************************)
(* How the collaborators' calls may end.                                   *)
(***************************************************************************)
\* how a call that returns nothing of interest may end
CallOutcomes == {"ok", "raise"}

\* how an exec may end: exit code 0, a non-zero exit code, or the call raising
ExecOutcomes == {"0", "1", "raise"}

(***************************************************************************)
(* Build Orchestrator steps (build.py:215-400).                            *)
(***************************************************************************)
\* _connect_to_docker
ConnectToDocker(b, o) ==
    IF o = "ok"
    THEN Res([b EXCEPT !.docker_client = TRUE], NoExc,
             <<Call("connect", 0, << >>, o)>>)
    ELSE Res(b, Wrap("PgxmBuilderDockerError", "Failed to connect to Docker: ",
                     EngineError),
             <<Call("connect", 0, << >>, o)>>)

\* _build_docker_image; id is the identifier the engine gives the new image
BuildDockerImage(b, o, id) ==
    IF ~b.docker_client \/ b.dockerfile_path_obj = "none" \/ ~b.extension_path
    THEN Res(b, Exc("PgxmBuilderError",
                    <<"Docker client, Dockerfile path, and extension path must be set.">>),
             << >>)
    ELSE IF o = "ok"
    THEN Res([b EXCEPT !.image_id = id], NoExc,
             <<Call("build_image", id, << >>, o)>>)
    ELSE Res(b, Wrap("PgxmBuilderDockerError", "Failed to build Docker image: ",
                     EngineError),
             <<Call("build_image", 0, << >>, o)>>)

\* _run_docker_container; id is the identifier of the new container
RunDockerContainer(b, o, id) ==
    IF ~b.docker_client \/ b.image_id = 0
    THEN Res(b, Exc("PgxmBuilderError",
                    <<"Docker client and image ID must be set.">>), << >>)
    ELSE IF o = "ok"
    THEN Res([b EXCEPT !.container_id = id], NoExc,
             <<Call("run_container", b.image_id, <<<<"sleep">>, <<"infinity">>>>, o)>>)
    ELSE Res(b, Wrap("PgxmBuilderDockerError", "Failed to run Docker container: ",
                     EngineError),
             <<Call("run_container", b.image_id, <<<<"sleep">>, <<"infinity">>>>, o)>>)

\* what the test phase meets in the container:
\*   makefile      locate_makefile: a path, nothing, or the call raising
\*   installcheck  makefile_contains_target(..., "installcheck")
\*   check         makefile_contains_target(..., "check")
\*   install, test the execs of make install and of make (install)check
\*   start         start_postgres: started, not started (the helper reports
\*                 it and returns), or the call raising
TestOutcomes ==
    [ makefile : {"found", "none", "raise"},
      installcheck : {"yes", "no", "raise"},
      check : {"yes", "no", "raise"},
      install : ExecOutcomes,
      start : {"ok", "failed", "raise"},
      test : ExecOutcomes ]

\* the targets of the makefile the test phase found in the container
MakefileTargets(opts, t) ==
    IF ~opts.test \/ t.makefile # "found" THEN {}
    ELSE {g \in {"installcheck", "check"} : t[g] = "yes"}

\* except Exception at build.py:370-372
TestsExcept(b, e, c) ==
    Res(b, Wrap("PgxmBuilderDockerError", "Error during test execution: ", e), c)

\* faulty variant of InstallcheckBranch: the exit code of make install is
\* not looked at
InstallcheckBranchNoExitCheck(b, t, c0) ==
    LET cid == b.container_id
        c1 == Append(c0, Call("exec", cid, <<<<"make">>, <<"install">>>>, t.install))
        c2 == Append(c1, Call("start_postgres", cid, << >>, t.start))
        c3 == Append(c2, CallEnv("exec", cid, <<<<"make">>, <<"installcheck">>>>,
                                 <<"PGUSER=postgres">>, t.test))
    IN  IF t.install = "raise" THEN TestsExcept(b, EngineError, c1)
        ELSE IF t.start = "raise" THEN TestsExcept(b, EngineError, c2)
        ELSE IF t.test = "raise" THEN TestsExcept(b, EngineError, c3)
        ELSE IF t.test = "0" THEN Res(b, NoExc, c3)
        ELSE TestsExcept(b, Exc("PgxmBuilderDockerError",
                                <<"Tests (installcheck) failed.">>), c3)

\* the installcheck branch, build.py:298-338
InstallcheckBranch(b, t, c0) ==
    LET cid == b.container_id
        c1 == Append(c0, Call("exec", cid, <<<<"make">>, <<"install">>>>, t.install))
        c2 == Append(c1, Call("start_postgres", cid, << >>, t.start))
        c3 == Append(c2, CallEnv("exec", cid, <<<<"make">>, <<"installcheck">>>>,
                                 <<"PGUSER=postgres">>, t.test))
    IN  IF t.install = "raise" THEN TestsExcept(b, EngineError, c1)
        ELSE IF t.install # "0"
        THEN TestsExcept(b, Exc("PgxmBuilderDockerError",
                                <<"'make install' failed before 'installcheck'.">>), c1)
        ELSE IF t.start = "raise" THEN TestsExcept(b, EngineError, c2)
        ELSE IF t.test = "raise" THEN TestsExcept(b, EngineError, c3)
        ELSE IF t.test = "0" THEN Res(b, NoExc, c3)
        ELSE TestsExcept(b, Exc("PgxmBuilderDockerError",
                                <<"Tests (installcheck) failed.">>), c3)

\* the check branch, build.py:344-363
CheckBranch(b, t, c0) ==
    LET cid == b.container_id
        c1 == Append(c0, Call("start_postgres", cid, << >>, t.start))
        c2 == Append(c1, CallEnv("exec", cid, <<<<"make">>, <<"check">>>>,
                                 <<"PGUSER=postgres">>, t.test))
    IN  IF t.start = "raise" THEN TestsExcept(b, EngineError, c1)
        ELSE IF t.test = "raise" THEN TestsExcept(b, EngineError, c2)
        ELSE IF t.test = "0" THEN Res(b, NoExc, c2)
        ELSE TestsExcept(b, Exc("PgxmBuilderDockerError",
                                <<"Tests (check) failed.">>), c2)

\* faulty variant of RunTests: the check target is looked for first
RunTestsCheckFirst(b, opts, t) ==
    LET cid == b.container_id
        c1 == <<Call("locate_makefile", cid, << >>, t.makefile)>>
        c2 == Append(c1, Call("makefile_contains_target", cid,
                              <<<<"check">>>>, t.check))
        c3 == Append(c2, Call("makefile_contains_target", cid,
                              <<<<"installcheck">>>>, t.installcheck))
    IN  IF ~opts.test THEN Res(b, NoExc, << >>)
        ELSE IF t.makefile = "raise" THEN TestsExcept(b, EngineError, c1)
        ELSE IF t.makefile = "none" THEN Res(b, NoExc, c1)
        ELSE IF t.check = "raise" THEN TestsExcept(b, EngineError, c2)
        ELSE IF t.check = "yes" THEN CheckBranch(b, t, c2)
        ELSE IF t.installcheck = "raise" THEN TestsExcept(b, EngineError, c3)
        ELSE IF t.installcheck = "yes" THEN InstallcheckBranch(b, t, c3)
        ELSE Res(b, NoExc, c3)

\* faulty variant of RunTests: a missing makefile, or one with neither
\* target, is an error
RunTestsNothingToRunIsError(b, opts, t) ==
    LET cid == b.container_id
        c1 == <<Call("locate_makefile", cid, << >>, t.makefile)>>
        c2 == Append(c1, Call("makefile_contains_target", cid,
                              <<<<"installcheck">>>>, t.installcheck))
        c3 == Append(c2, Call("makefile_contains_target", cid,
                              <<<<"check">>>>, t.check))
        nothing == Exc("PgxmBuilderDockerError", <<"No tests to run.">>)
    IN  IF ~opts.test THEN Res(b, NoExc, << >>)
        ELSE IF t.makefile = "raise" THEN TestsExcept(b, EngineError, c1)
        ELSE IF t.makefile = "none" THEN TestsExcept(b, nothing, c1)
        ELSE IF t.installcheck = "raise" THEN TestsExcept(b, EngineError, c2)
        ELSE IF t.installcheck = "yes" THEN InstallcheckBranch(b, t, c2)
        ELSE IF t.check = "raise" THEN TestsExcept(b, EngineError, c3)
        ELSE IF t.check = "yes" THEN CheckBranch(b, t, c3)
        ELSE TestsExcept(b, nothing, c3)

\* _run_tests
RunTests(b, opts, t) ==
    LET cid == b.container_id
        c1 == <<Call("locate_makefile", cid, << >>, t.makefile)>>
        c2 == Append(c1, Call("makefile_contains_target", cid,
                              <<<<"installcheck">>>>, t.installcheck))
        c3 == Append(c2, Call("makefile_contains_target", cid,
                              <<<<"check">>>>, t.check))
    IN  IF ~b.docker_client \/ cid = 0
        THEN Res(b, Exc("PgxmBuilderError",
                        <<"Docker client and container ID must be set.">>), << >>)
        ELSE IF ~opts.test THEN Res(b, NoExc, << >>)
        ELSE IF t.makefile = "raise" THEN TestsExcept(b, EngineError, c1)
        ELSE IF t.makefile = "none" THEN Res(b, NoExc, c1)
        ELSE IF t.installcheck = "raise" THEN TestsExcept(b, EngineError, c2)
        ELSE IF t.installcheck = "yes" THEN InstallcheckBranch(b, t, c2)
        ELSE IF t.check = "raise" THEN TestsExcept(b, EngineError, c3)
        ELSE IF t.check = "yes" THEN CheckBranch(b, t, c3)
        ELSE Res(b, NoExc, c3)

\* faulty variant of ExecuteInstallCommand: the exit code is not looked at
ExecuteInstallCommandNoExitCheck(b, o) ==
    LET c == <<Call("exec", b.container_id, SplitWS(b.final_install_command), o)>>
    IN  IF o = "raise"
        THEN Res(b, Wrap("PgxmBuilderDockerError",
                         "Error executing install command: ", EngineError), c)
        ELSE Res(b, NoExc, c)

\* _execute_install_command
ExecuteInstallCommand(b, o) ==
    LET c == <<Call("exec", b.container_id, SplitWS(b.final_install_command), o)>>
    IN  IF ~b.docker_client \/ b.container_id = 0
           \/ ~Truthy(b.final_install_command)
        THEN Res(b, Exc("PgxmBuilderError",
                        <<"Docker client, container ID, and install command must be set.">>),
                 << >>)
        ELSE IF o = "raise"
        THEN Res(b, Wrap("PgxmBuilderDockerError",
                         "Error executing install command: ", EngineError), c)
        ELSE IF o # "0"
        THEN Res(b, Wrap("PgxmBuilderDockerError",
                         "Error executing install command: ",
                         Exc("PgxmBuilderDockerError",
                             <<"Install command failed: ">>)), c)
        ELSE Res(b, NoExc, c)

(***************************************************************************)
(* Artifact Collector (build.py:402-487).  A collected file is a pair of   *)
(* its host path and its archive path.                                     *)
(***************************************************************************)
\* container-relative paths the engine's diff may report
ChangedPathUniverse ==
    { <<"lib", "/", "a.so">>, <<"licenses", "\\", "LICENSE">>, <<"manifest.json">> }

\* container-relative paths the license scan may report
LicensePathUniverse == { <<"doc", "/", "LICENSE">> }

\* the sequences without repetition of at most n elements of U
ListsOf(U, n) ==
    UNION { { f \in [1..k -> U] : \A i, j \in 1..k : f[i] = f[j] => i = j } :
            k \in 0..n }

\* the host path copy_files_from_container gives a container path
HostPath(p) == <<"tmp", "/">> \o p

File(host, arc) == [host |-> host, arc |-> arc]

\* copy_files_from_container's result for paths copied in the order ps
Copied(ps) == [i \in 1..Len(ps) |-> File(HostPath(ps[i]), ps[i])]

\* what collection meets:
\*   diff      get_changed_files ends ok or raises
\*   changed   the changed paths, in the order the copy returns them
\*   copy      copy_files_from_container of the changed paths
\*   find      find_licenses
\*   licenses  the license paths, in the order the copy returns them
\*   instr     copy_licenses
\*   copyLic   copy_files_from_container of the license paths
CollectOutcomes ==
    [ diff : CallOutcomes,
      changed : ListsOf(ChangedPathUniverse, MaxChanged),
      copy : CallOutcomes,
      find : CallOutcomes,
      licenses : ListsOf(LicensePathUniverse, Cardinality(LicensePathUniverse)),
      instr : CallOutcomes,
      copyLic : CallOutcomes ]

\* faulty variant of CollectChanged: an empty change set is an error
CollectChangedEmptyIsError(b, o) ==
    LET cid == b.container_id
        c1 == <<Call("diff", cid, IF o.diff = "ok" THEN o.changed ELSE << >>,
                     o.diff)>>
        c2 == Append(c1, Call("copy", cid, o.changed, o.copy))
    IN  IF o.diff = "raise" \/ o.changed = << >>
        THEN [files |-> << >>, calls |-> c1,
              exc |-> Wrap("PgxmBuilderDockerError",
                           "Error discovering changed files: ", EngineError)]
        ELSE IF o.copy = "raise"
        THEN [files |-> << >>, calls |-> c2,
              exc |-> Wrap("PgxmBuilderDockerError",
                           "Error copying changed files: ", EngineError)]
        ELSE [files |-> Copied(o.changed), calls |-> c2, exc |-> NoExc]

\* [files, exc, calls] of the changed-files part, build.py:419-445
CollectChanged(b, o) ==
    LET cid == b.container_id
        c1 == <<Call("diff", cid, IF o.diff = "ok" THEN o.changed ELSE << >>,
                     o.diff)>>
        c2 == Append(c1, Call("copy", cid, o.changed, o.copy))
    IN  IF o.diff = "raise"
        THEN [files |-> << >>, calls |-> c1,
              exc |-> Wrap("PgxmBuilderDockerError",
                           "Error discovering changed files: ", EngineError)]
        ELSE IF o.changed = << >>
        THEN [files |-> << >>, calls |-> c1, exc |-> NoExc]
        ELSE IF o.copy = "raise"
        THEN [files |-> << >>, calls |-> c2,
              exc |-> Wrap("PgxmBuilderDockerError",
                           "Error copying changed files: ", EngineError)]
        ELSE [files |-> Copied(o.changed), calls |-> c2, exc |-> NoExc]

\* faulty variant of LicenseEntries: the path in the container is kept under
\* licenses/
LicenseEntriesKeepPath(copied) ==
    [i \in 1..Len(copied) |->
        File(copied[i].host, <<"licenses", "/">> \o copied[i].arc)]

\* the entries appended for copied license files, build.py:474-479
LicenseEntries(copied) ==
    [i \in 1..Len(copied) |->
        File(copied[i].host, <<"licenses", "/">> \o PathName(copied[i].host))]

\* [files, exc, calls] of the body of the try at build.py:450-482
CollectLicensesTry(b, o) ==
    LET cid == b.container_id
        c1 == <<Call("find_licenses", cid,
                     IF o.find = "ok" THEN o.licenses ELSE << >>, o.find)>>
        c2 == Append(c1, Call("copy_licenses", cid, o.licenses, o.instr))
        c3 == Append(c2, Call("copy", cid, o.licenses, o.copyLic))
    IN  IF o.find = "raise"
        THEN [files |-> << >>, calls |-> c1, exc |-> EngineError]
        ELSE IF o.licenses = << >>
        THEN [files |-> << >>, calls |-> c1, exc |-> NoExc]
        ELSE IF o.instr = "raise"
        THEN [files |-> << >>, calls |-> c2, exc |-> EngineError]
        ELSE IF o.copyLic = "raise"
        THEN [files |-> << >>, calls |-> c3, exc |-> EngineError]
        ELSE [files |-> LicenseEntries(Copied(o.licenses)), calls |-> c3,
              exc |-> NoExc]

\* faulty variant of CollectLicenses: the error of the license step is raised
CollectLicensesFatal(b, o) ==
    LET r == CollectLicensesTry(b, o)
    IN  [files |-> r.files, calls |-> r.calls,
         exc |-> IF r.exc = NoExc THEN NoExc
                 ELSE Wrap("PgxmBuilderDockerError",
                           "Error handling license files: ", r.exc)]

\* the try with its except at build.py:483-485: logged, not fatal
CollectLicenses(b, o) ==
    LET r == CollectLicensesTry(b, o)
    IN  [files |-> r.files, calls |-> r.calls, exc |-> NoExc]

\* _discover_and_collect_files: [b, exc, calls, files]
DiscoverAndCollectFiles(b, o) ==
    IF ~b.docker_client \/ b.container_id = 0
    THEN [b |-> b, calls |-> << >>, files |-> << >>,
          exc |-> Exc("PgxmBuilderError",
                      <<"Docker client and container ID must be set.">>)]
    ELSE LET m == CollectChanged(b, o)
             l == CollectLicenses(b, o)
         IN  IF m.exc # NoExc
             THEN [b |-> b, calls |-> m.calls, files |-> << >>, exc |-> m.exc]
             ELSE IF l.exc # NoExc
             THEN [b |-> b, calls |-> m.calls \o l.calls, files |-> << >>,
                   exc |-> l.exc]
             ELSE [b |-> b, calls |-> m.calls \o l.calls,
                   files |-> m.files \o l.files, exc |-> NoExc]

(***************************************************************************)
(* Packager (build.py:489-558).                                            *)
(***************************************************************************)
ManifestPath == HostPath(MANIFEST_FILENAME)

\* the manifest_data of _create_manifest
ManifestData(b, opts) ==
    [ name |-> b.final_name,
      version |-> b.final_version,
      pg_version |-> opts.pg_version,
      description |-> Get(b.control_data, "comment", <<"Built by pgxm">>) ]

\* _create_manifest: [b, exc, calls, manifest]; o is how the write ends
CreateManifest(b, opts, o) ==
    IF opts.extension_dependencies = None \/ opts.preload_libraries = None
    THEN [b |-> b, calls |-> << >>, manifest |-> << >>,
          exc |-> Exc("AttributeError",
                      <<"'NoneType' object has no attribute 'split'">>)]
    ELSE IF o = "raise"
    THEN [b |-> b, calls |-> <<Host("write_manifest", ManifestPath, o)>>,
          manifest |-> << >>,
          exc |-> Wrap("PgxmBuilderError", "Failed to create manifest: ",
                       HostError)]
    ELSE [b |-> b, calls |-> <<Host("write_manifest", ManifestPath, o)>>,
          manifest |-> <<ManifestData(b, opts)>>, exc |-> NoExc]

\* package_filename, build.py:523-525
PackageFilename(b, opts) ==
    b.final_name \o <<"-">> \o b.final_version \o <<"-pg">> \o opts.pg_version
        \o <<".tar.gz">>

\* faulty variant of AddFiles: a later file with an archive path already
\* added takes the place of the entry added first
RECURSIVE AddFilesOverwrite(_, _, _, _, _)
AddFilesOverwrite(files, i, missing, acc, cs) ==
    IF i > Len(files) THEN [entries |-> acc, calls |-> cs]
    ELSE LET f == files[i]
             arc == ReplaceBackslash(f.arc)
             exists == f.host \notin missing
             probe == Host("host_path_exists", f.host, YesNo(exists))
             added == \E k \in 1..Len(acc) : acc[k].arc = arc
         IN  IF exists /\ ~added
             THEN AddFilesOverwrite(files, i + 1, missing,
                                    Append(acc, File(f.host, arc)),
                                    cs \o <<probe, Host("tar_add", arc, "ok")>>)
             ELSE IF exists
             THEN AddFilesOverwrite(files, i + 1, missing,
                                    [k \in 1..Len(acc) |->
                                        IF acc[k].arc = arc THEN File(f.host, arc)
                                        ELSE acc[k]],
                                    cs \o <<probe, Host("tar_add", arc, "ok")>>)
             ELSE AddFilesOverwrite(files, i + 1, missing, acc, Append(cs, probe))

\* faulty variant of AddFiles: every file that exists is added, also under
\* an archive path added before
RECURSIVE AddFilesNoDedup(_, _, _, _, _)
AddFilesNoDedup(files, i, missing, acc, cs) ==
    IF i > Len(files) THEN [entries |-> acc, calls |-> cs]
    ELSE LET f == files[i]
             arc == ReplaceBackslash(f.arc)
             exists == f.host \notin missing
             probe == Host("host_path_exists", f.host, YesNo(exists))
         IN  IF exists
             THEN AddFilesNoDedup(files, i + 1, missing,
                                  Append(acc, File(f.host, arc)),
                                  cs \o <<probe, Host("tar_add", arc, "ok")>>)
             ELSE AddFilesNoDedup(files, i + 1, missing, acc, Append(cs, probe))

\* the loop at build.py:538-552 over files from index i on: the entries of
\* the archive (in acc) and the calls made (in cs); missing is the set of
\* host paths that do not exist
RECURSIVE AddFiles(_, _, _, _, _)
AddFiles(files, i, missing, acc, cs) ==
    IF i > Len(files) THEN [entries |-> acc, calls |-> cs]
    ELSE LET f == files[i]
             arc == ReplaceBackslash(f.arc)
             exists == f.host \notin missing
             probe == Host("host_path_exists", f.host, YesNo(exists))
             added == \E k \in 1..Len(acc) : acc[k].arc = arc
         IN  IF exists /\ ~added
             THEN AddFiles(files, i + 1, missing,
                           Append(acc, File(f.host, arc)),
                           cs \o <<probe, Host("tar_add", arc, "ok")>>)
             ELSE AddFiles(files, i + 1, missing, acc, Append(cs, probe))

\* faulty variant of PackageFiles: files are added without asking whether
\* they exist, and adding one that does not fails
PackageFilesNoExistsCheck(b, opts, files, missing, tar) ==
    LET all == Append(files, File(ManifestPath, MANIFEST_FILENAME))
        open == Host("tar_open", PackageFilename(b, opts), tar)
        r == AddFiles(all, 1, missing, << >>, << >>)
    IN  IF tar = "raise" \/ missing # {}
        THEN [b |-> b, calls |-> <<open>> \o r.calls, files |-> all,
              entries |-> << >>, written |-> tar # "raise",
              exc |-> Wrap("PgxmBuilderError",
                           "Failed to create package archive: ", HostError)]
        ELSE [b |-> b, calls |-> <<open>> \o r.calls, files |-> all,
              entries |-> r.entries, written |-> TRUE, exc |-> NoExc]

\* _package_files: [b, exc, calls, files, entries, written]; files is the
\* caller's list after the call (the manifest is appended to it in place),
\* written tells whether the archive file was created, tar how opening it ends
PackageFiles(b, opts, files, missing, tar) ==
    LET all == Append(files, File(ManifestPath, MANIFEST_FILENAME))
        open == Host("tar_open", PackageFilename(b, opts), tar)
        r == AddFiles(all, 1, missing, << >>, << >>)
    IN  IF ~b.output_dir
        THEN [b |-> b, calls |-> << >>, files |-> files, entries |-> << >>,
              written |-> FALSE,
              exc |-> Exc("PgxmBuilderError", <<"Output directory must be set.">>)]
        ELSE IF tar = "raise"
        THEN [b |-> b, calls |-> <<open>>, files |-> all, entries |-> << >>,
              written |-> FALSE,
              exc |-> Wrap("PgxmBuilderError",
                           "Failed to create package archive: ", HostError)]
        ELSE [b |-> b, calls |-> <<open>> \o r.calls, files |-> all,
              entries |-> r.entries, written |-> TRUE, exc |-> NoExc]

(***************************************************************************)
(* Lifecycle Guard (build.py:599-633).                                     *)
(***************************************************************************)
\* what teardown meets: how containers.get ends (with the status of the
\* container it returns, or raising) and how stop, remove and images.remove end
CleanupOutcomes ==
    [ get : {"running", "exited", "raise"},
      stop : CallOutcomes,
      remove : CallOutcomes,
      rmi : CallOutcomes ]

\* the body of the first try of _cleanup, build.py:617-623
CleanupContainerTry(b, k) ==
    LET cid == b.container_id
        c1 == <<Call("get", cid, << >>, k.get)>>
        c2 == IF k.get = "running"
              THEN Append(c1, Call("stop", cid, << >>, k.stop))
              ELSE c1
        c3 == Append(c2, Call("remove", cid, << >>, k.remove))
    IN  IF cid = 0 THEN Res(b, NoExc, << >>)
        ELSE IF k.get = "raise" THEN Res(b, EngineError, c1)
        ELSE IF k.get = "running" /\ k.stop = "raise"
        THEN Res(b, EngineError, c2)
        ELSE IF k.remove = "raise" THEN Res(b, EngineError, c3)
        ELSE Res(b, NoExc, c3)

\* the body of the second try of _cleanup, build.py:628-631
CleanupImageTry(b, k) ==
    LET c1 == <<Call("remove_image", b.image_id, <<<<"force">>>>, k.rmi)>>
    IN  IF b.image_id = 0 THEN Res(b, NoExc, << >>)
        ELSE IF k.rmi = "raise" THEN Res(b, EngineError, c1)
        ELSE Res(b, NoExc, c1)

\* faulty variant of CleanupExcept: the error is raised again
CleanupExceptReraise(r) == r

\* except Exception at build.py:624-625 and 632-633: logged, not raised
CleanupExcept(r) == Res(r.b, NoExc, r.calls)

\* the first try statement of _cleanup
CleanupContainer(b, k) == CleanupExcept(CleanupContainerTry(b, k))

\* the second try statement of _cleanup
CleanupImage(b, k) == CleanupExcept(CleanupImageTry(b, k))

\* faulty variant of Cleanup: one try statement around both removals, so an
\* error of the container part skips the image part
CleanupOneTry(b, k) ==
    IF ~b.docker_client THEN Res(b, NoExc, << >>)
    ELSE LET r1 == CleanupContainerTry(b, k)
         IN  CleanupExcept(Then(r1, CleanupImageTry(r1.b, k)))

\* _cleanup
Cleanup(b, k) ==
    IF ~b.docker_client THEN Res(b, NoExc, << >>)
    ELSE LET r1 == CleanupContainer(b, k)
         IN  Then(r1, CleanupImage(r1.b, k))

\* faulty variant of BuildExcept: every error is raised again as it is
BuildExceptRaw(e) == e

\* the except clauses of build(), build.py:599-608: the error build() raises
\* for the error e raised in its try block
BuildExcept(e) ==
    IF IsBuilderError(e) THEN e
    ELSE IF e.type = "APIError"
    THEN Wrap("PgxmBuilderDockerError", "Docker API error: ", e)
    ELSE Wrap("PgxmBuilderError", "Build failed unexpectedly: ", e)

\* the finally clause of build(), build.py:609-611: the error build() leaves
\* with, given the error pending and the error teardown raised
BuildFinally(pending, cleanupExc) ==
    IF cleanupExc # NoExc THEN cleanupExc ELSE pending

(***************************************************************************)
(* The build command of the CLI (cli.py:53-90) around build_extension.     *)
(***************************************************************************)
SUCCESS_MESSAGE == <<"Build completed successfully.">>

\* click ends the process with ClickException.exit_code, and shows the
\* exception as "Error: <message>"
CLICK_EXCEPTION_EXIT_CODE == 1

\* how the command ends when build_extension left with e (NoExc: returned)
CliBuild(e) ==
    IF e = NoExc
    THEN [exit |-> 0, stdout |-> <<SUCCESS_MESSAGE>>, stderr |-> << >>]
    ELSE IF e.type = "ClickException"
    THEN [exit |-> CLICK_EXCEPTION_EXIT_CODE, stdout |-> << >>,
          stderr |-> << <<"Error: ">> \o e.msg >>]
    ELSE [exit |-> CLICK_EXCEPTION_EXIT_CODE, stdout |-> << >>,
          stderr |-> << <<"An unexpected error occurred during build: ">> \o e.msg,
                        <<"Error: ", "Build failed.">> >>]

(***************************************************************************)
(* The container engine, as far as concurrent builds meet in it.           *)
(***************************************************************************)
\* image_tag at build.py:239: the tag build_image is given
ImageTag(name, version, pid) ==
    <<"pgxm_build_">> \o name \o <<"_">> \o version \o <<"_", ToString(pid)>>

\* images: the tagged images, each with its identifier; containers: the
\* identifiers of the containers that exist; next: the next fresh identifier;
\* removed: the teardown calls that went through, each with the invocation
\* that made it and the other invocations that held the identifier then
EmptyEngine ==
    [ images |-> {}, containers |-> {}, next |-> 1, removed |-> {} ]

\* the identifier build_image returns for tag: the engine holds one image per
\* tag, so a build under a tag in use yields the image of that tag
EngineImageId(e, tag) ==
    IF \E im \in e.images : im.tag = tag
    THEN (CHOOSE im \in e.images : im.tag = tag).id
    ELSE e.next

EngineAfterBuild(e, tag) ==
    IF \E im \in e.images : im.tag = tag THEN e
    ELSE [e EXCEPT !.images = @ \cup {[tag |-> tag, id |-> e.next]},
                   !.next = @ + 1]

\* run_temporary_container: a new container with a fresh identifier
EngineAfterRun(e) ==
    [e EXCEPT !.containers = @ \cup {e.next}, !.next = @ + 1]

\* the invocations other than p, not yet left, that hold the identifier the
\* teardown call c targets
HeldBy(iv, p, c) ==
    { q \in DOMAIN iv :
        /\ q # p
        /\ iv[q].pc # "done"
        /\ IF c.op = "remove_image" THEN iv[q].b.image_id = c.id
           ELSE iv[q].b.container_id = c.id }

\* the engine after the teardown calls cs of invocation p
EngineAfterTeardown(e, iv, p, cs) ==
    LET done == { i \in 1..Len(cs) :
                    cs[i].op \in {"stop", "remove", "remove_image"}
                    /\ cs[i].out = "ok" }
        rc == { cs[i].id : i \in { j \in done : cs[j].op = "remove" } }
        ri == { cs[i].id : i \in { j \in done : cs[j].op = "remove_image" } }
    IN  [e EXCEPT !.containers = @ \ rc,
                  !.images = { im \in @ : im.id \notin ri },
                  !.removed = @ \cup { [ by |-> p, op |-> cs[i].op,
                                         id |-> cs[i].id,
                                         held |-> HeldBy(iv, p, cs[i]) ] :
                                       i \in done }]

(***************************************************************************)
(* State.                                                                  *)
(*   options    the builder's options, fixed at construction               *)
(*   builder    the builder's fields                                       *)
(*   pc         the step build() is about to run; "idle" before the call   *)
(*              and "done" once it has left                                 *)
(*   buildNo    the number of build() calls started on the builder         *)
(*   calls      the calls made by the current build() call, in order, each *)
(*              with the step that made it                                  *)
(*   steps      the steps the current build() call ran, each with whether  *)
(*              it returned normally                                        *)
(*   pending    the error build()'s except clauses raised (NoExc if none)  *)
(*   result     the error build() left with (NoExc: it returned)           *)
(*   collected  the list _discover_and_collect_files returned, as it is    *)
(*              now                                                         *)
(*   manifest   the manifest written (a sequence of at most one)           *)
(*   archive    the entries of the archive written                         *)
(*   written    whether the archive file was created                       *)
(*   cli        how the build command of the CLI ended (a sequence of at   *)
(*              most one): its exit code and what it wrote                 *)
(*   makefile   the targets of the makefile the test phase found (kept     *)
(*              where the test phase is looked at alone)                    *)
(*   inv        the build invocations running side by side against one     *)
(*              engine, each with its process id, its builder, its tag and  *)
(*              its position                                                *)
(*   engine     the images and containers of that engine                   *)
(***************************************************************************)
VARIABLES options, builder, pc, buildNo, calls, steps, pending, result,
          collected, manifest, archive, written, cli, makefile, inv, engine

vars == <<options, builder, pc, buildNo, calls, steps, pending, result,
          collected, manifest, archive, written, cli, makefile, inv, engine>>

Step(name, ok) == [step |-> name, ok |-> ok]

\* the calls cs, marked as made by step name
Tag(name, cs) == [i \in 1..Len(cs) |-> [step |-> name] @@ cs[i]]

Init ==
    /\ options \in OptionSets
    /\ builder = NewBuilder
    /\ pc = "idle"
    /\ buildNo = 0
    /\ calls = << >>
    /\ steps = << >>
    /\ pending = NoExc
    /\ result = NoExc
    /\ collected = << >>
    /\ manifest = << >>
    /\ archive = << >>
    /\ written = FALSE
    /\ cli = << >>
    /\ makefile = {}
    /\ inv = << >>
    /\ engine = EmptyEngine

\* the build command calls build_extension, which constructs the builder
\* and calls build() on it
BuildEnter ==
    /\ pc = "idle"
    /\ buildNo' = buildNo + 1
    /\ pc' = "validate"
    /\ calls' = << >>
    /\ steps' = << >>
    /\ pending' = NoExc
    /\ result' = NoExc
    /\ collected' = << >>
    /\ manifest' = << >>
    /\ archive' = << >>
    /\ written' = FALSE
    /\ cli' = << >>
    /\ makefile' = {}
    /\ UNCHANGED <<options, builder, inv, engine>>

\* faulty variant of Advance: the error of a step is dropped and build()
\* goes on to the next step
AdvanceSwallow(name, r, next) ==
    /\ builder' = r.b
    /\ calls' = calls \o Tag(name, r.calls)
    /\ steps' = Append(steps, Step(name, r.exc = NoExc))
    /\ pending' = pending
    /\ pc' = next
    /\ UNCHANGED <<options, buildNo, result, cli, inv, engine>>

\* a step of the try block of build() ended as r: on to the next step, or to
\* the except clauses and the finally clause
Advance(name, r, next) ==
    /\ builder' = r.b
    /\ calls' = calls \o Tag(name, r.calls)
    /\ steps' = Append(steps, Step(name, r.exc = NoExc))
    /\ pending' = IF r.exc = NoExc THEN pending ELSE BuildExcept(r.exc)
    /\ pc' = IF r.exc = NoExc THEN next ELSE "cleanup"
    /\ UNCHANGED <<options, buildNo, result, cli, inv, engine>>

DoValidate ==
    /\ pc = "validate"
    /\ \E fs \in FsFacts : Advance("validate", Validate(builder, options, fs), "connect")
    /\ UNCHANGED <<collected, manifest, archive, written, makefile>>

DoConnect ==
    /\ pc = "connect"
    /\ \E o \in CallOutcomes : Advance("connect", ConnectToDocker(builder, o), "image")
    /\ UNCHANGED <<collected, manifest, archive, written, makefile>>

DoBuildImage ==
    /\ pc = "image"
    /\ \E o \in CallOutcomes :
          Advance("image", BuildDockerImage(builder, o, buildNo), "run")
    /\ UNCHANGED <<collected, manifest, archive, written, makefile>>

DoRunContainer ==
    /\ pc = "run"
    /\ \E o \in CallOutcomes :
          Advance("run", RunDockerContainer(builder, o, buildNo), "tests")
    /\ UNCHANGED <<collected, manifest, archive, written, makefile>>

DoRunTests ==
    /\ pc = "tests"
    /\ \E t \in TestOutcomes : Advance("tests", RunTests(builder, options, t), "install")
    /\ UNCHANGED <<collected, manifest, archive, written, makefile>>

DoInstall ==
    /\ pc = "install"
    /\ \E o \in ExecOutcomes :
          Advance("install", ExecuteInstallCommand(builder, o), "collect")
    /\ UNCHANGED <<collected, manifest, archive, written, makefile>>

DoCollect ==
    /\ pc = "collect"
    /\ \E o \in CollectOutcomes :
          LET r == DiscoverAndCollectFiles(builder, o)
          IN  /\ Advance("collect", r, "manifest")
              /\ collected' = r.files
    /\ UNCHANGED <<manifest, archive, written, makefile>>

DoCreateManifest ==
    /\ pc = "manifest"
    /\ \E o \in CallOutcomes :
          LET r == CreateManifest(builder, options, o)
          IN  /\ Advance("manifest", r, "package")
              /\ manifest' = r.manifest
    /\ UNCHANGED <<collected, archive, written, makefile>>

\* the host paths of the collected files, any of which may be gone when the
\* archive is written (but for the manifest's path, written the step before)
HostPathsOf(files) == {files[i].host : i \in 1..Len(files)}

DoPackage ==
    /\ pc = "package"
    /\ \E tar \in CallOutcomes,
          missing \in SUBSET (HostPathsOf(collected) \ {ManifestPath}) :
          LET r == PackageFiles(builder, options, collected, missing, tar)
          IN  /\ Advance("package", r, "cleanup")
              /\ collected' = r.files
              /\ archive' = r.entries
              /\ written' = r.written
    /\ UNCHANGED <<manifest, makefile>>

\* the finally clause: _cleanup, then build() returns or raises and the
\* build command of the CLI ends
DoCleanup ==
    /\ pc = "cleanup"
    /\ \E k \in CleanupOutcomes :
          LET r == Cleanup(builder, k)
          IN  /\ builder' = r.b
              /\ calls' = calls \o Tag("cleanup", r.calls)
              /\ steps' = Append(steps, Step("cleanup", r.exc = NoExc))
              /\ result' = BuildFinally(pending, r.exc)
              /\ cli' = <<CliBuild(BuildFinally(pending, r.exc))>>
    /\ pc' = "done"
    /\ UNCHANGED <<options, buildNo, pending, collected, manifest, archive, written,
                   makefile, inv, engine>>

Next ==
    \/ BuildEnter
    \/ DoValidate
    \/ DoConnect
    \/ DoBuildImage
    \/ DoRunContainer
    \/ DoRunTests
    \/ DoInstall
    \/ DoCollect
    \/ DoCreateManifest
    \/ DoPackage
    \/ DoCleanup

Spec == Init /\ [][Next]_vars

(***************************************************************************)
(* Resolution alone: _validate on a fresh builder, over the name and        *)
(* version options and over control files with each setting absent, empty,  *)
(* blank or given.                                                          *)
(***************************************************************************)
ModuleLines ==
    { << >>,
      << Line("module_pathname", <<"$libdir", "/", "foo">>) >>,
      << Line("module_pathname", <<"foo">>) >>,
      << Line("module_pathname", <<"$libdir", "/">>) >>,
      << Line("module_pathname", << >>) >> }

VersionLines ==
    { << >>,
      << Line("default_version", <<"2.1.0">>) >>,
      << Line("default_version", << >>) >>,
      << <<"default_version", "=", "1.0", "\n">> >> }

CommentLines ==
    { << >>,
      << Line("comment", <<"Foo", " ", "ext">>) >>,
      << Line("comment", <<" ", "Foo">>) >>,
      << Line("comment", <<" ">>) >>,
      << Line("comment", << >>) >>,
      << <<"#", " ", "comment", " ", "=", " ", "Foo", "\n">>, <<"\n">> >> }

ResolveControlFiles ==
    { m \o v \o c : m \in ModuleLines, v \in VersionLines, c \in CommentLines }

ResolveOptionSets ==
    [ test : { FALSE },
      install_command : { << >> },
      dockerfile : { << >>, <<"Dockerfile.alt">> },
      name : { << >>, <<"n">> },
      extension_name : { << >>, <<"e">> },
      version : { << >>, <<"9.9">> },
      pg_version : { DEFAULT_PG_VERSION },
      extension_dependencies : { Some(<<"dep">>) },
      preload_libraries : { Some(<< >>) } ]

ResolveFsFacts ==
    [ pathExists : BOOLEAN,
      mkdirOk : { TRUE },
      control : {"missing", "found"},
      file : ResolveControlFiles,
      dockerfileOptExists : BOOLEAN,
      srcDockerfileExists : BOOLEAN,
      makefileExists : BOOLEAN ]

InitResolve ==
    /\ options \in ResolveOptionSets
    /\ builder = NewBuilder
    /\ pc = "idle"
    /\ buildNo = 0
    /\ calls = << >>
    /\ steps = << >>
    /\ pending = NoExc
    /\ result = NoExc
    /\ collected = << >>
    /\ manifest = << >>
    /\ archive = << >>
    /\ written = FALSE
    /\ cli = << >>
    /\ makefile = {}
    /\ inv = << >>
    /\ engine = EmptyEngine

\* _validate, as build() calls it
DoResolve ==
    /\ pc = "validate"
    /\ \E fs \in ResolveFsFacts :
          Advance("validate", Validate(builder, options, fs), "connect")
    /\ UNCHANGED <<collected, manifest, archive, written, makefile>>

NextResolve ==
    \/ BuildEnter
    \/ DoResolve

SpecResolve == InitResolve /\ [][NextResolve]_vars

(***************************************************************************)
(* Packaging alone: _package_files called twice with the same list, on a   *)
(* host whose files do not change between the calls.  The lists are those  *)
(* collection returns.                                                      *)
(***************************************************************************)
\* a builder whose container runs
RunningBuilder ==
    [NewBuilder EXCEPT !.extension_path = TRUE, !.output_dir = TRUE,
                       !.dockerfile_path_obj = "source",
                       !.final_install_command = MAKE_INSTALL,
                       !.docker_client = TRUE, !.image_id = 1,
                       !.container_id = 1, !.validated = TRUE]

PackBuilders ==
    { [RunningBuilder EXCEPT !.final_name = n, !.final_version = v] :
        n \in { <<"foo">>, UNKNOWN_EXTENSION },
        v \in { <<"2.1.0">>, FALLBACK_VERSION } }

PackOptionSets ==
    [ test : { FALSE },
      install_command : { << >> },
      dockerfile : { << >> },
      name : { << >> },
      extension_name : { << >> },
      version : { << >> },
      pg_version : { DEFAULT_PG_VERSION, <<"16">> },
      extension_dependencies : { Some(<<"dep">>) },
      preload_libraries : { Some(<< >>) } ]

\* the lists _discover_and_collect_files returns
CollectedLists ==
    { DiscoverAndCollectFiles(RunningBuilder, o).files : o \in CollectOutcomes }

InitPack ==
    /\ options \in PackOptionSets
    /\ builder \in PackBuilders
    /\ pc = "package"
    /\ buildNo = 1
    /\ calls = << >>
    /\ steps = << >>
    /\ pending = NoExc
    /\ result = NoExc
    /\ collected \in CollectedLists
    /\ manifest = <<ManifestData(builder, options)>>
    /\ archive = << >>
    /\ written = FALSE
    /\ cli = << >>
    /\ makefile = {}
    /\ inv = << >>
    /\ engine = EmptyEngine

\* the first call of _package_files
PackFirst ==
    /\ pc = "package"
    /\ \E tar \in CallOutcomes,
          missing \in SUBSET (HostPathsOf(collected) \ {ManifestPath}) :
          LET r == PackageFiles(builder, options, collected, missing, tar)
          IN  /\ calls' = Tag("package", r.calls)
              /\ steps' = Append(steps, Step("package", r.exc = NoExc))
              /\ collected' = r.files
              /\ archive' = r.entries
              /\ written' = r.written
    /\ pc' = "package2"
    /\ UNCHANGED <<options, builder, buildNo, pending, result, manifest, cli,
                   makefile, inv, engine>>

\* the host paths the calls made so far found missing
FoundMissing ==
    {calls[i].argv : i \in {j \in 1..Len(calls) :
                               calls[j].op = "host_path_exists" /\ calls[j].out = "no"}}

\* the second call of _package_files, with the list as the first call left
\* it; the host is as the first call found it
PackSecond ==
    /\ pc = "package2"
    /\ LET r == PackageFiles(builder, options, collected, FoundMissing,
                             calls[1].out)
       IN  /\ calls' = calls \o Tag("package2", r.calls)
           /\ steps' = Append(steps, Step("package2", r.exc = NoExc))
           /\ collected' = r.files
           /\ archive' = r.entries
           /\ written' = r.written
    /\ pc' = "packed"
    /\ UNCHANGED <<options, builder, buildNo, pending, result, manifest, cli,
                   makefile, inv, engine>>

NextPack ==
    \/ PackFirst
    \/ PackSecond

SpecPack == InitPack /\ [][NextPack]_vars

(***************************************************************************)
(* Collection and packaging alone, from a running container, with license *)
(* files at several depths of the container's file system.                 *)
(***************************************************************************)
WideLicensePathUniverse ==
    { <<"LICENSE">>, <<"doc", "/", "LICENSE">>,
      <<"usr", "/", "share", "/", "COPYING">> }

WideCollectOutcomes ==
    [ diff : CallOutcomes,
      changed : ListsOf(ChangedPathUniverse, MaxChanged),
      copy : CallOutcomes,
      find : CallOutcomes,
      licenses : ListsOf(WideLicensePathUniverse, 2),
      instr : CallOutcomes,
      copyLic : CallOutcomes ]

InitCollect ==
    /\ options \in PackOptionSets
    /\ builder = [RunningBuilder EXCEPT !.final_name = <<"foo">>,
                                        !.final_version = <<"2.1.0">>]
    /\ pc = "collect"
    /\ buildNo = 1
    /\ calls = << >>
    /\ steps = << >>
    /\ pending = NoExc
    /\ result = NoExc
    /\ collected = << >>
    /\ manifest = << >>
    /\ archive = << >>
    /\ written = FALSE
    /\ cli = << >>
    /\ makefile = {}
    /\ inv = << >>
    /\ engine = EmptyEngine

DoCollectWide ==
    /\ pc = "collect"
    /\ \E o \in WideCollectOutcomes :
          LET r == DiscoverAndCollectFiles(builder, o)
          IN  /\ Advance("collect", r, "manifest")
              /\ collected' = r.files
    /\ UNCHANGED <<manifest, archive, written, makefile>>

NextCollect ==
    \/ DoCollectWide
    \/ DoCreateManifest
    \/ DoPackage
    \/ DoCleanup

SpecCollect == InitCollect /\ [][NextCollect]_vars

(***************************************************************************)
(* The test phase alone, from a running container, with what the makefile  *)
(* it finds holds kept in the state.                                       *)
(***************************************************************************)
TestOptionSets ==
    [ test : BOOLEAN,
      install_command : { << >> },
      dockerfile : { << >> },
      name : { << >> },
      extension_name : { << >> },
      version : { << >> },
      pg_version : { DEFAULT_PG_VERSION },
      extension_dependencies : { Some(<<"dep">>) },
      preload_libraries : { Some(<< >>) } ]

InitTests ==
    /\ options \in TestOptionSets
    /\ builder = [RunningBuilder EXCEPT !.final_name = <<"foo">>,
                                        !.final_version = <<"2.1.0">>]
    /\ pc = "tests"
    /\ buildNo = 1
    /\ calls = << >>
    /\ steps = << >>
    /\ pending = NoExc
    /\ result = NoExc
    /\ collected = << >>
    /\ manifest = << >>
    /\ archive = << >>
    /\ written = FALSE
    /\ cli = << >>
    /\ makefile = {}
    /\ inv = << >>
    /\ engine = EmptyEngine

DoRunTestsOnMakefile ==
    /\ pc = "tests"
    /\ \E t \in TestOutcomes :
          /\ Advance("tests", RunTests(builder, options, t), "install")
          /\ makefile' = MakefileTargets(options, t)
    /\ UNCHANGED <<collected, manifest, archive, written>>

NextTests ==
    \/ DoRunTestsOnMakefile
    \/ DoInstall
    \/ DoCleanup

SpecTests == InitTests /\ [][NextTests]_vars

(***************************************************************************)
(* One PgxmBuilder instance reused: build() is called again on the         *)
(* instance after an earlier call has left.                                *)
(***************************************************************************)
ReuseOptionSets ==
    [ test : { FALSE },
      install_command : { << >> },
      dockerfile : { << >> },
      name : { << >> },
      extension_name : { << >> },
      version : { << >> },
      pg_version : { DEFAULT_PG_VERSION },
      extension_dependencies : { Some(<<"dep">>) },
      preload_libraries : { Some(<< >>) } ]

InitReuse ==
    /\ options \in ReuseOptionSets
    /\ builder = NewBuilder
    /\ pc = "idle"
    /\ buildNo = 0
    /\ calls = << >>
    /\ steps = << >>
    /\ pending = NoExc
    /\ result = NoExc
    /\ collected = << >>
    /\ manifest = << >>
    /\ archive = << >>
    /\ written = FALSE
    /\ cli = << >>
    /\ makefile = {}
    /\ inv = << >>
    /\ engine = EmptyEngine

\* build() is called on the instance once more
BuildAgain ==
    /\ pc = "done"
    /\ buildNo < MaxBuilds
    /\ buildNo' = buildNo + 1
    /\ pc' = "validate"
    /\ calls' = << >>
    /\ steps' = << >>
    /\ pending' = NoExc
    /\ result' = NoExc
    /\ collected' = << >>
    /\ manifest' = << >>
    /\ archive' = << >>
    /\ written' = FALSE
    /\ cli' = << >>
    /\ makefile' = {}
    /\ UNCHANGED <<options, builder, inv, engine>>

NextReuse ==
    \/ Next
    \/ BuildAgain

SpecReuse == InitReuse /\ [][NextReuse]_vars

(***************************************************************************)
(* Build invocations side by side against one engine.  Each has passed     *)
(* _validate and _connect_to_docker; its steps between the start of its    *)
(* container and teardown (execs, diff, copies, packaging) do not touch    *)
(* the engine's images and containers and are one step here.               *)
(***************************************************************************)
Procs == 1..MaxProcs

\* what os.getpid() may give an invocation: invocations in one process, or
\* in processes of different process-id namespaces, get the same number
PidUniverse == {4711, 4712}

Invocations ==
    [ pid : PidUniverse,
      b : { [RunningBuilder EXCEPT !.final_name = <<"foo">>,
                                   !.final_version = v,
                                   !.image_id = 0, !.container_id = 0] :
              v \in { <<"2.1.0">>, FALLBACK_VERSION } },
      pc : { "image" },
      tag : { << >> } ]

InitConcurrent ==
    /\ options \in ReuseOptionSets
    /\ builder = NewBuilder
    /\ pc = "idle"
    /\ buildNo = 0
    /\ calls = << >>
    /\ steps = << >>
    /\ pending = NoExc
    /\ result = NoExc
    /\ collected = << >>
    /\ manifest = << >>
    /\ archive = << >>
    /\ written = FALSE
    /\ cli = << >>
    /\ makefile = {}
    /\ inv \in [Procs -> Invocations]
    /\ engine = EmptyEngine

InvBuildImage(p) ==
    /\ inv[p].pc = "image"
    /\ \E o \in CallOutcomes :
          LET b == inv[p].b
              tag == ImageTag(b.final_name, b.final_version, inv[p].pid)
              r == BuildDockerImage(b, o, EngineImageId(engine, tag))
          IN  /\ inv' = [inv EXCEPT ![p].b = r.b, ![p].tag = tag,
                                    ![p].pc = IF r.exc = NoExc THEN "run"
                                              ELSE "cleanup"]
              /\ engine' = IF o = "ok" THEN EngineAfterBuild(engine, tag)
                           ELSE engine
    /\ UNCHANGED <<options, builder, pc, buildNo, calls, steps, pending, result,
                   collected, manifest, archive, written, cli, makefile>>

InvRunContainer(p) ==
    /\ inv[p].pc = "run"
    /\ \E o \in CallOutcomes :
          LET r == RunDockerContainer(inv[p].b, o, engine.next)
          IN  /\ inv' = [inv EXCEPT ![p].b = r.b,
                                    ![p].pc = IF r.exc = NoExc THEN "work"
                                              ELSE "cleanup"]
              /\ engine' = IF o = "ok" THEN EngineAfterRun(engine) ELSE engine
    /\ UNCHANGED <<options, builder, pc, buildNo, calls, steps, pending, result,
                   collected, manifest, archive, written, cli, makefile>>

\* tests, install command, collection and packaging of invocation p
InvWork(p) ==
    /\ inv[p].pc = "work"
    /\ inv' = [inv EXCEPT ![p].pc = "cleanup"]
    /\ UNCHANGED <<options, builder, pc, buildNo, calls, steps, pending, result,
                   collected, manifest, archive, written, cli, makefile, engine>>

InvCleanup(p) ==
    /\ inv[p].pc = "cleanup"
    /\ \E k \in CleanupOutcomes :
          LET r == Cleanup(inv[p].b, k)
          IN  /\ inv' = [inv EXCEPT ![p].b = r.b, ![p].pc = "done"]
              /\ engine' = EngineAfterTeardown(engine, inv, p, r.calls)
    /\ UNCHANGED <<options, builder, pc, buildNo, calls, steps, pending, result,
                   collected, manifest, archive, written, cli, makefile>>

NextConcurrent ==
    \/ \E p \in Procs : InvBuildImage(p)
    \/ \E p \in Procs : InvRunContainer(p)
    \/ \E p \in Procs : InvWork(p)
    \/ \E p \in Procs : InvCleanup(p)

SpecConcurrent == InitConcurrent /\ [][NextConcurrent]_vars

(***************************************************************************)
(* Properties.                                                             *)
(***************************************************************************)
CallIdx == 1..Len(calls)
StepIdx == 1..Len(steps)

\* the number of times teardown ran in the current build() call
CleanupCount == Cardinality({i \in StepIdx : steps[i].step = "cleanup"})

\* a call of teardown's container part raised
ContainerTeardownRaised ==
    \E i \in CallIdx : calls[i].op \in {"get", "stop", "remove"}
                       /\ calls[i].out = "raise"

\* some call of teardown raised
TeardownRaised ==
    \E i \in CallIdx : calls[i].op \in {"get", "stop", "remove", "remove_image"}
                       /\ calls[i].out = "raise"

RemoveIssued ==
    \E i \in CallIdx :
        /\ calls[i].op = "remove"
        /\ calls[i].id = builder.container_id
        /\ \A g \in CallIdx :
              calls[g].op = "get" /\ calls[g].out = "running"
              => \E j \in 1..(i - 1) : calls[j].op = "stop"
                                       /\ calls[j].id = builder.container_id

ForcedImageRemoveIssued ==
    \E i \in CallIdx :
        /\ calls[i].op = "remove_image"
        /\ calls[i].id = builder.image_id
        /\ calls[i].argv = <<<<"force">>>>

\* C1: whichever step build() failed at, or on success, teardown has run
\* exactly once when build() leaves, and it issued a removal call for the
\* container if a container id was recorded (after a stop call if the
\* container was running) and a forced removal call for the image if an image
\* id was recorded.
C1_TeardownOnceAndRemovesBoth ==
    pc = "done" =>
        /\ CleanupCount = 1
        /\ builder.container_id # 0 => RemoveIssued
        /\ builder.image_id # 0 => ForcedImageRemoveIssued

\* C2: in teardown the forced image removal is attempted when an image id was
\* recorded, also when looking up, stopping or removing the container raised.
C2_ImageRemovalAfterContainerFailure ==
    (pc = "done" /\ builder.image_id # 0 /\ ContainerTeardownRaised)
        => /\ ForcedImageRemoveIssued
           /\ \A i, j \in CallIdx :
                 (calls[i].op \in {"get", "stop", "remove"}
                    /\ calls[j].op = "remove_image") => i < j

C2_Witness ==
    /\ pc = "done"
    /\ builder.image_id # 0
    /\ \E i \in CallIdx : calls[i].op = "remove" /\ calls[i].out = "raise"
    /\ ForcedImageRemoveIssued

\* the error the try block of build() ended with, as the except clauses
\* raise it, from the steps that ran before teardown
FailedStep == \E i \in StepIdx : steps[i].step # "cleanup" /\ ~steps[i].ok

\* C3: the outcome of build() is the one its steps before teardown decided:
\* build() returns normally exactly when no step failed, it raises the error
\* of the failed step otherwise, and an error of a teardown call is never what
\* it raises.
C3_TeardownNeverChangesOutcome ==
    pc = "done" =>
        /\ result = pending
        /\ (result = NoExc) = ~FailedStep
        /\ result # NoExc => IsBuilderError(result)

C3_Witness ==
    /\ pc = "done"
    /\ TeardownRaised
    /\ FailedStep
    /\ result = pending
    /\ result.type = "PgxmBuilderDockerError"

\* a call of the current build() call satisfies P
AnyCall(P(_)) == \E i \in CallIdx : P(calls[i])

\* the calls step name made
CallsOf(name) == SelectSeq(calls, LAMBDA c : c.step = name)

\* the step at position i of build()'s try block ran
Ran(i) == Len(steps) >= i /\ steps[i].step # "cleanup"

\* resolution looked for the source path, the control file or the Dockerfile
\* and did not find it
PathMissing(c) == c.op = "path_exists" /\ c.out = "no"
ControlFileMissing(c) == c.op = "find_control_file" /\ c.out = "no"
DockerfileMissing(c) ==
    c.op = "dockerfile_exists" /\ c.out = "no"
    /\ c.argv = <<"source", "/", "Dockerfile">>

ConfigurationMissing ==
    AnyCall(PathMissing) \/ AnyCall(ControlFileMissing) \/ AnyCall(DockerfileMissing)

\* C4: when the source path does not exist, no control file is found or no
\* Dockerfile is found, build() fails with a PgxmBuilderConfigError and no
\* call is made on the container engine, teardown included.
C4_ConfigErrorBeforeAnyEngineCall ==
    ConfigurationMissing =>
        /\ ~AnyCall(IsEngineCall)
        /\ ~steps[1].ok
        /\ pending.type = "PgxmBuilderConfigError"
        /\ pc \in {"cleanup", "done"}
        /\ pc = "done" => result.type = "PgxmBuilderConfigError"

C4_Witness ==
    /\ pc = "done"
    /\ AnyCall(DockerfileMissing)
    /\ CleanupCount = 1
    /\ result.type = "PgxmBuilderConfigError"

StepOrder ==
    <<"validate", "connect", "image", "run", "tests", "install", "collect",
      "manifest", "package">>

\* the position of a step in build()
StepRank ==
    [ validate |-> 1, connect |-> 2, image |-> 3, run |-> 4, tests |-> 5,
      install |-> 6, collect |-> 7, manifest |-> 8, package |-> 9,
      cleanup |-> 10 ]

\* C5: within one build() call the steps run in the order validate, connect,
\* image build, container run, tests, install, collect, manifest, package,
\* cleanup; a step begins only after every earlier step has returned
\* normally, and after a failed step only cleanup runs: every call (exec,
\* diff, copy, archive write, ...) is made by a step that ran, in step order.
C5_StepsInOrder ==
    /\ \A i \in StepIdx :
          IF steps[i].step = "cleanup"
          THEN i = Len(steps) /\ pc = "done"
          ELSE /\ i <= Len(StepOrder)
               /\ steps[i].step = StepOrder[i]
               /\ \A j \in 1..(i - 1) : steps[j].ok
    /\ \A i \in CallIdx :
          /\ \E k \in StepIdx : steps[k].step = calls[i].step
          /\ i > 1 => StepRank[calls[i - 1].step] <= StepRank[calls[i].step]
    /\ pc \in Range(StepOrder) =>
          /\ Len(steps) = StepRank[pc] - 1
          /\ \A j \in StepIdx : steps[j].ok
    /\ ~Ran(7) => collected = << >>
    /\ ~Ran(8) => manifest = << >>
    /\ ~Ran(9) => archive = << >> /\ ~written

C5_Witness ==
    /\ pc = "done"
    /\ Len(steps) = 5
    /\ ~steps[4].ok
    /\ AnyCall(LAMBDA c : c.step = "cleanup" /\ c.op = "remove_image")

\* the execs and engine starts of the test phase
TestRuns == SelectSeq(calls, LAMBDA c : c.step = "tests"
                                        /\ c.op \in {"exec", "start_postgres"})

InstallcheckFound ==
    AnyCall(LAMBDA c : c.op = "makefile_contains_target"
                       /\ c.argv = <<<<"installcheck">>>> /\ c.out = "yes")

InstallcheckSequence ==
    << [op |-> "exec", argv |-> <<<<"make">>, <<"install">>>>, env |-> << >>],
       [op |-> "start_postgres", argv |-> << >>, env |-> << >>],
       [op |-> "exec", argv |-> <<<<"make">>, <<"installcheck">>>>,
        env |-> <<"PGUSER=postgres">>] >>

\* C6: with the test flag set and an installcheck target in the makefile,
\* the test phase runs make install, then the start of the database engine,
\* then make installcheck with PGUSER=postgres, in that order (each unless the
\* call before it raised); when make install exits non-zero neither the start
\* nor make installcheck is ever run and the build fails.
C6_InstallcheckSequence ==
    (InstallcheckFound /\ Ran(5)) =>
        LET n == Len(TestRuns)
        IN  /\ options.test
            /\ n \in 1..3
            /\ \A i \in 1..n :
                  /\ TestRuns[i].op = InstallcheckSequence[i].op
                  /\ TestRuns[i].argv = InstallcheckSequence[i].argv
                  /\ TestRuns[i].env = InstallcheckSequence[i].env
                  /\ TestRuns[i].id = builder.container_id
            /\ TestRuns[1].out = "0" => n >= 2
            /\ (n >= 2 /\ TestRuns[2].out # "raise") => n = 3
            /\ TestRuns[1].out = "1" =>
                  /\ n = 1
                  /\ ~steps[5].ok
                  /\ pending.type = "PgxmBuilderDockerError"
                  /\ pc = "done" => result # NoExc

C6_Witness ==
    /\ InstallcheckFound
    /\ pc = "install"
    /\ Len(TestRuns) = 3
    /\ TestRuns[3].out = "0"

\* the string s without its whitespace
NoWS(s) == SelectSeq(s, LAMBDA t : ~IsWS(t))

RECURSIVE Concat(_)
Concat(ws) == IF ws = << >> THEN << >> ELSE Head(ws) \o Concat(Tail(ws))

\* C7: the install command is run by one exec in the container whose argv is
\* the command split at whitespace; when it exits non-zero build() fails
\* with an error, no diff, copy, manifest or archive is made, and teardown
\* runs.
C7_InstallFailureIsFatal ==
    Ran(6) =>
        LET ic == CallsOf("install")
        IN  /\ Len(ic) = 1
            /\ ic[1].op = "exec"
            /\ ic[1].id = builder.container_id
            /\ ic[1].env = << >>
            /\ \A w \in Range(ic[1].argv) : w # << >> /\ NoWS(w) = w
            /\ Concat(ic[1].argv) = NoWS(builder.final_install_command)
            /\ ic[1].out = "1" =>
                  /\ ~steps[6].ok
                  /\ IsBuilderError(pending)
                  /\ ~AnyCall(LAMBDA c : c.op \in {"diff", "copy", "find_licenses",
                                                   "write_manifest", "tar_open",
                                                   "tar_add"})
                  /\ collected = << >> /\ manifest = << >>
                  /\ archive = << >> /\ ~written
                  /\ pc \in {"cleanup", "done"}
                  /\ pc = "done" => CleanupCount = 1 /\ result = pending

C7_Witness ==
    /\ pc = "done"
    /\ Ran(6)
    /\ CallsOf("install")[1].out = "1"
    /\ Len(CallsOf("install")[1].argv) = 2
    /\ CleanupCount = 1

\* the engine's diff returned an empty change set
DiffEmpty == AnyCall(LAMBDA c : c.op = "diff" /\ c.out = "ok" /\ c.argv = << >>)

\* the license scan returned no license file
NoLicenses ==
    AnyCall(LAMBDA c : c.op = "find_licenses" /\ c.out = "ok" /\ c.argv = << >>)

\* the archive file was opened for writing
TarOpened == AnyCall(LAMBDA c : c.op = "tar_open" /\ c.out = "ok")

\* C8: when the diff returns an empty change set and no license file is
\* found, collection returns an empty list without error and makes no copy
\* call, and packaging (the archive file being writable) succeeds with an
\* archive whose only entry is manifest.json.
C8_EmptyCollectionPackagesManifestOnly ==
    /\ DiffEmpty =>
          /\ Ran(7) /\ steps[7].ok
          /\ \A i \in CallIdx :
                calls[i].op = "copy" =>
                    \E j \in 1..(i - 1) : calls[j].op = "copy_licenses"
    /\ (DiffEmpty /\ NoLicenses) =>
          /\ ~AnyCall(LAMBDA c : c.op \in {"copy", "copy_licenses"})
          /\ pc = "manifest" => collected = << >>
          /\ (Ran(9) /\ TarOpened) =>
                /\ steps[9].ok
                /\ written
                /\ archive = <<File(ManifestPath, MANIFEST_FILENAME)>>

C8_Witness ==
    /\ DiffEmpty /\ NoLicenses
    /\ pc = "done"
    /\ result = NoExc
    /\ Len(archive) = 1
    /\ archive[1].arc = <<"manifest.json">>

\* a call of the license part of collection raised
LicenseStepRaised ==
    \E i \in CallIdx :
        /\ calls[i].step = "collect"
        /\ calls[i].out = "raise"
        /\ \/ calls[i].op \in {"find_licenses", "copy_licenses"}
           \/ /\ calls[i].op = "copy"
              /\ \E j \in 1..(i - 1) : calls[j].op = "find_licenses"

\* the files copied for the changed paths the diff reported, in copy order
ChangedFilesCopied ==
    LET d == CHOOSE i \in CallIdx : calls[i].op = "diff"
        ch == calls[d].argv
    IN  [i \in 1..Len(ch) |-> [host |-> <<"tmp", "/">> \o ch[i], arc |-> ch[i]]]

\* C9: an error raised while finding, resolving or copying license files is
\* not fatal: collection returns normally with exactly the changed files
\* copied before the license step (no license entry), and the build goes on
\* to manifest creation.
C9_LicenseErrorsNotFatal ==
    LicenseStepRaised =>
        /\ Ran(7) /\ steps[7].ok
        /\ pending = NoExc \/ Ran(8)
        /\ Len(steps) = 7 => pc = "manifest" /\ collected = ChangedFilesCopied
        /\ Ran(8) /\ ~Ran(9) => collected = ChangedFilesCopied
        /\ Ran(9) => collected \in
                        { ChangedFilesCopied,
                          Append(ChangedFilesCopied,
                                 File(ManifestPath, MANIFEST_FILENAME)) }

C9_Witness ==
    /\ pc = "package"
    /\ AnyCall(LAMBDA c : c.op = "copy_licenses" /\ c.out = "raise")
    /\ Len(collected) = 1
    /\ manifest # << >>

\* the host path h did not exist when the archive was written
Missing(h) ==
    AnyCall(LAMBDA c : c.op = "host_path_exists" /\ c.out = "no" /\ c.argv = h)

\* C10: a collected file whose host path does not exist when the archive is
\* written is skipped; packaging (the archive file being writable) does not
\* fail, and every collected file that exists and whose archive path no
\* earlier existing file carries is in the archive.
C10_MissingHostFileSkipped ==
    (Ran(9) /\ TarOpened) =>
        /\ steps[9].ok
        /\ written
        /\ \A i \in 1..Len(collected) :
              LET f == collected[i]
                  arc == ReplaceBackslash(f.arc)
                  first == \A j \in 1..(i - 1) :
                              \/ Missing(collected[j].host)
                              \/ ReplaceBackslash(collected[j].arc) # arc
              IN  IF Missing(f.host)
                  THEN \A k \in 1..Len(archive) : archive[k].host # f.host
                  ELSE first => \E k \in 1..Len(archive) :
                                    archive[k] = File(f.host, arc)

C10_Witness ==
    /\ pc = "done"
    /\ result = NoExc
    /\ Len(collected) = 3
    /\ Missing(collected[1].host)
    /\ Len(archive) = 2
    /\ archive[1].host = collected[2].host

\* the items of the collected list carrying the archive path of item i
\* (after separator normalisation) that come before it
Earlier(i) ==
    {j \in 1..(i - 1) :
        ReplaceBackslash(collected[j].arc) = ReplaceBackslash(collected[i].arc)}

\* the archive entry k was made from item i of the collected list
MadeFrom(k, i) ==
    /\ archive[k].host = collected[i].host
    /\ archive[k].arc = ReplaceBackslash(collected[i].arc)

\* the archive holds every archive path at most once, with "/" separators
ArchivePathsUnique ==
    /\ \A k, l \in 1..Len(archive) : archive[k].arc = archive[l].arc => k = l
    /\ \A k \in 1..Len(archive) : "\\" \notin Range(archive[k].arc)

\* C11 as claimed: in every archive produced each archive path appears at
\* most once, and its entry comes from the first item of the collected list
\* carrying that path, every later item with that path being dropped.
C11_FirstItemWins ==
    (Ran(9) /\ TarOpened) =>
        /\ ArchivePathsUnique
        /\ \A k \in 1..Len(archive) :
              \E i \in 1..Len(collected) : MadeFrom(k, i) /\ Earlier(i) = {}

\* C11: in every archive produced each archive path (after separator
\* normalisation) appears at most once, and its entry comes from the first
\* item of the collected list carrying that path whose host file exists:
\* every later item with that path is dropped, never added and never
\* overwriting the first.
C11_FirstExistingItemWins ==
    (Ran(9) /\ TarOpened) =>
        /\ ArchivePathsUnique
        /\ \A k \in 1..Len(archive) :
              \E i \in 1..Len(collected) :
                 /\ MadeFrom(k, i)
                 /\ ~Missing(collected[i].host)
                 /\ \A j \in Earlier(i) : Missing(collected[j].host)
        /\ \A i \in 1..Len(collected) :
              (\E j \in Earlier(i) : ~Missing(collected[j].host)
                                     /\ collected[j].host # collected[i].host)
              => \A k \in 1..Len(archive) : archive[k].host # collected[i].host

C11_Witness ==
    /\ pc = "done"
    /\ result = NoExc
    /\ Len(collected) = 3
    /\ Earlier(2) = {1}
    /\ ~Missing(collected[1].host) /\ ~Missing(collected[2].host)
    /\ collected[1].host # collected[2].host
    /\ Len(archive) = 2
    /\ MadeFrom(1, 1)

\* C12: the archive of a successful build holds the manifest generated for
\* the build as its final entry, under the top-level name manifest.json,
\* whatever the collected changed files and license files are.
C12_ManifestIsFinalEntry ==
    (pc = "done" /\ result = NoExc) =>
        /\ written
        /\ manifest # << >>
        /\ archive # << >>
        /\ archive[Len(archive)] = File(ManifestPath, MANIFEST_FILENAME)
        /\ \A k \in 1..Len(archive) :
              archive[k].arc = MANIFEST_FILENAME => k = Len(archive)

\* the type of the error build() raises when connecting to the engine fails
ConnectFailureKind == BuildExcept(ConnectToDocker(NewBuilder, "raise").exc).type

\* the image build, the container run or an exec raised in the engine
LaterEngineFailure ==
    \E i \in CallIdx :
        /\ calls[i].step \in {"image", "run", "tests", "install"}
        /\ calls[i].op \in {"build_image", "run_container", "exec"}
        /\ calls[i].out = "raise"

\* C16: the error build() raises when connecting to the container engine
\* fails differs in type from the error it raises when the image build, the
\* container run or an exec fails later.
C16_ConnectFailureKindDistinct ==
    (pc = "done" /\ LaterEngineFailure) =>
        /\ result # NoExc
        /\ result.type # ConnectFailureKind

\* collection outcomes where the diff raises, and where the copy raises
DiffRaises ==
    [diff |-> "raise", changed |-> << >>, copy |-> "ok", find |-> "ok",
     licenses |-> << >>, instr |-> "ok", copyLic |-> "ok"]

CopyRaises ==
    [diff |-> "ok", changed |-> << <<"lib", "/", "a.so">> >>, copy |-> "raise",
     find |-> "ok", licenses |-> << >>, instr |-> "ok", copyLic |-> "ok"]

\* the types of the errors build() raises when an exec, the diff or the copy
\* call itself fails
EngineErrorKinds ==
    { BuildExcept(ExecuteInstallCommand(RunningBuilder, "raise").exc).type,
      BuildExcept(DiscoverAndCollectFiles(RunningBuilder, DiffRaises).exc).type,
      BuildExcept(DiscoverAndCollectFiles(RunningBuilder, CopyRaises).exc).type }

\* make install, make check or make installcheck exited non-zero in the
\* test phase
TestExitedNonZero ==
    \E i \in CallIdx :
        /\ calls[i].step = "tests"
        /\ calls[i].op = "exec"
        /\ calls[i].out = "1"

\* C17: when make install, make check or make installcheck exits non-zero
\* in the test phase, build() raises an error whose type differs from the
\* type of the error raised when an exec, diff or copy call itself fails.
C17_TestFailureKindDistinct ==
    (pc = "done" /\ TestExitedNonZero) =>
        /\ result # NoExc
        /\ result.type \notin EngineErrorKinds

\* the control file was read
ControlFileRead == AnyCall(LAMBDA c : c.op = "read_control_file" /\ c.out = "ok")

\* the lines of the control file read
ControlFileLines ==
    calls[CHOOSE i \in CallIdx : calls[i].op = "read_control_file"].argv

\* _determine_name_and_version returned: resolution went on to the Dockerfile
NameDetermined == AnyCall(LAMBDA c : c.op = "dockerfile_exists")

\* C13: after resolution, the resolved name and the resolved version are
\* both non-empty strings, whatever the override options and the control
\* file's contents are.
C13_NameAndVersionNeverEmpty ==
    /\ NameDetermined =>
          /\ builder.final_name # << >>
          /\ builder.final_version # << >>
          /\ \A t \in Range(builder.final_name) \cup Range(builder.final_version) :
                t # ""
    /\ pc = "connect" => builder.validated /\ NameDetermined

C13_Witness ==
    /\ pc = "connect"
    /\ options.name = << >> /\ options.extension_name = << >>
    /\ options.version = << >>
    /\ "default_version" \in DOMAIN builder.control_data
    /\ builder.control_data["default_version"] = << >>
    /\ builder.final_name = <<"unknown-extension">>
    /\ builder.final_version = <<"0.0.1">>

\* what follows the last "/" of s (all of s when it has none)
AfterLastSlash(s) ==
    CHOOSE seg \in {SubSeq(s, k + 1, Len(s)) : k \in 0..Len(s)} :
        /\ "/" \notin Range(seg)
        /\ Len(seg) = Len(s) \/ s[Len(s) - Len(seg)] = "/"

\* the first whitespace-delimited token of s (empty when s has none)
FirstWord(s) ==
    LET ns == {i \in 1..Len(s) : s[i] \notin WhiteSpace}
    IN  IF ns = {} THEN << >>
        ELSE LET a == CHOOSE i \in ns : \A j \in ns : i <= j
                 b == CHOOSE j \in a..Len(s) :
                         /\ \A i \in a..j : i \in ns
                         /\ j = Len(s) \/ (j + 1) \notin ns
             IN  SubSeq(s, a, b)

\* the first non-empty string of the sequence ss
FirstNonEmpty(ss) ==
    ss[CHOOSE i \in 1..Len(ss) : ss[i] # << >> /\ \A j \in 1..(i - 1) : ss[j] = << >>]

\* the value of a control-file setting, empty when the file does not set it
Setting(key) ==
    IF key \in DOMAIN builder.control_data THEN builder.control_data[key]
    ELSE << >>

\* C14: for every control file (with a setting at least) and option set the
\* resolved name is the first non-empty value of: the extension_name option,
\* the name option, the last "/"-separated segment of module_pathname, the
\* first whitespace-delimited token of comment, the literal
\* unknown-extension; an absent or empty source falls through to the next,
\* resolution does not fail.
C14_NameByPriority ==
    (ControlFileRead /\ DOMAIN builder.control_data # {}) =>
        /\ NameDetermined
        /\ builder.final_name =
              FirstNonEmpty(<< options.extension_name,
                               options.name,
                               AfterLastSlash(Setting("module_pathname")),
                               FirstWord(Setting("comment")),
                               <<"unknown-extension">> >>)

\* the control file read sets default_version to 2.1.0, in the line
\* default_version = '2.1.0' and in no other
VersionLineScenario ==
    /\ ControlFileRead
    /\ \E i \in 1..Len(ControlFileLines) :
          /\ ControlFileLines[i] = <<"default_version", " ", "=", " ", "'",
                                     "2.1.0", "'", "\n">>
          /\ \A j \in 1..Len(ControlFileLines) :
                j # i => ControlFileLines[j][1] # "default_version"

\* C15: the resolved version is the version option if given and non-empty,
\* otherwise the control file's default_version if present and non-empty,
\* otherwise the literal 0.0.1; a control file with the line
\* default_version = '2.1.0' and no version option resolve to 2.1.0.
C15_VersionByPriority ==
    NameDetermined =>
        /\ options.version # << >> => builder.final_version = options.version
        /\ (options.version = << >> /\ Setting("default_version") # << >>)
              => builder.final_version = Setting("default_version")
        /\ (options.version = << >> /\ Setting("default_version") = << >>)
              => builder.final_version = <<"0.0.1">>
        /\ (options.version = << >> /\ VersionLineScenario)
              => builder.final_version = <<"2.1.0">>

C15_Witness ==
    /\ pc = "connect"
    /\ options.version = << >>
    /\ VersionLineScenario
    /\ builder.final_version = <<"2.1.0">>

\* the Dockerfile option is given and resolution found a file at its path
OptionDockerfileExists ==
    /\ options.dockerfile # << >>
    /\ AnyCall(LAMBDA c : c.op = "dockerfile_exists" /\ c.out = "yes"
                           /\ c.argv = options.dockerfile)

\* the Dockerfile option is given and resolution found no file at its path
OptionDockerfileMissing ==
    /\ options.dockerfile # << >>
    /\ AnyCall(LAMBDA c : c.op = "dockerfile_exists" /\ c.out = "no"
                           /\ c.argv = options.dockerfile)

\* resolution found <source>/Dockerfile
SourceDockerfileExists ==
    AnyCall(LAMBDA c : c.op = "dockerfile_exists" /\ c.out = "yes"
                       /\ c.argv = <<"source", "/", "Dockerfile">>)

\* C20: the Dockerfile used is the path of the Dockerfile option when the
\* option is given and the path exists, otherwise <source>/Dockerfile when
\* it exists, otherwise resolution fails with a configuration error; an
\* option whose path does not exist falls back to <source>/Dockerfile.
C20_DockerfileByPriority ==
    NameDetermined =>
        /\ options.dockerfile # << >>
              => OptionDockerfileExists \/ OptionDockerfileMissing
        /\ OptionDockerfileExists =>
              /\ builder.dockerfile_path_obj = "option"
              /\ steps[1].ok
        /\ (~OptionDockerfileExists /\ SourceDockerfileExists) =>
              /\ builder.dockerfile_path_obj = "source"
              /\ steps[1].ok
        /\ (~OptionDockerfileExists /\ ~SourceDockerfileExists) =>
              /\ AnyCall(DockerfileMissing)
              /\ builder.dockerfile_path_obj = "none"
              /\ ~steps[1].ok
              /\ pending.type = "PgxmBuilderConfigError"

C20_Witness ==
    /\ pc = "connect"
    /\ OptionDockerfileMissing
    /\ SourceDockerfileExists
    /\ builder.dockerfile_path_obj = "source"

\* the last call build() made before teardown
LastCallBeforeTeardown ==
    LET n == Len(SelectSeq(calls, LAMBDA c : c.step # "cleanup"))
    IN  calls[n]

\* the failed step failed through a call that raised: the last call it made
FailedThroughRaise ==
    /\ FailedStep
    /\ \E i \in CallIdx : calls[i].step # "cleanup"
    /\ \E i \in StepIdx : ~steps[i].ok /\ steps[i].step = LastCallBeforeTeardown.step
    /\ LastCallBeforeTeardown.out = "raise"

\* C18: a failed step makes build() raise a PgxmBuilderError (or subclass)
\* that carries the message of the underlying error, never an engine or
\* library exception as it is; the build command then exits non-zero, shows
\* the error and does not print the success message, which is printed
\* exactly when build() returned normally.
C18_TypedErrorAndNonZeroExit ==
    pc = "done" =>
        /\ Len(cli) = 1
        /\ FailedStep =>
              /\ result # NoExc
              /\ IsBuilderError(result)
              /\ cli[1].exit # 0
              /\ SUCCESS_MESSAGE \notin Range(cli[1].stdout)
              /\ \E i \in 1..Len(cli[1].stderr) :
                    \E k \in 1..Len(cli[1].stderr[i]) :
                       SubSeq(cli[1].stderr[i], k, Len(cli[1].stderr[i])) = result.msg
        /\ FailedThroughRaise =>
              result.msg[Len(result.msg)] =
                  IF IsEngineCall(LastCallBeforeTeardown) THEN "engine" ELSE "host"
        /\ (SUCCESS_MESSAGE \in Range(cli[1].stdout)) = (result = NoExc)
        /\ result = NoExc => ~FailedStep /\ cli[1].exit = 0

C18_Witness ==
    /\ pc = "done"
    /\ FailedThroughRaise
    /\ LastCallBeforeTeardown.op = "mkdir"
    /\ result.type = "PgxmBuilderError"
    /\ cli[1].exit = 1

\* the entries a packaging call added to its archive, in order, as its calls
\* show them: each tar_add follows the probe of the host path it adds
AddedBy(step) ==
    LET cs == CallsOf(step)
    IN  SelectSeq([i \in 1..Len(cs) |->
                      IF cs[i].op = "tar_add"
                      THEN <<File(cs[i - 1].argv, cs[i].argv)>>
                      ELSE << >>],
                  LAMBDA e : e # << >>)

\* C19: packaging the same collected-file list twice, on the same host
\* files and with the same name, version and pg_version, opens an archive of
\* the same file name and adds the same sequence of entries both times: the
\* manifest item the first call appended to the list changes nothing in the
\* second.
C19_PackagingTwiceSameArchive ==
    pc = "packed" =>
        LET c1 == CallsOf("package")
            c2 == CallsOf("package2")
        IN  /\ c1[1].op = "tar_open" /\ c2[1].op = "tar_open"
            /\ c1[1].argv = c2[1].argv
            /\ steps[1].ok = steps[2].ok
            /\ AddedBy("package") = AddedBy("package2")
            /\ AddedBy("package2") = [k \in 1..Len(archive) |-> <<archive[k]>>]
            /\ Cardinality({k \in 1..Len(archive) :
                               archive[k].arc = MANIFEST_FILENAME}) <= 1

C19_Witness ==
    /\ pc = "packed"
    /\ steps[1].ok /\ steps[2].ok
    /\ Len(collected) = 4
    /\ collected[3] = File(ManifestPath, MANIFEST_FILENAME)
    /\ collected[4] = File(ManifestPath, MANIFEST_FILENAME)
    /\ Len(archive) = 3
    /\ AddedBy("package") = AddedBy("package2")


(***************************************************************************)
(* Resolution is done once per builder (build.py:205-213).                 *)
(***************************************************************************)
\* build() takes its _validate step on a builder that is already resolved
ValidateAgain == pc = "validate" /\ builder.validated /\ pc' # pc

\* the _validate step of build() fails
ValidateFails == pc = "validate" /\ pc' = "cleanup"

C21_Step ==
    /\ ValidateAgain =>
          /\ calls' = calls
          /\ builder' = builder
          /\ pc' = "connect"
    /\ ValidateFails => ~builder'.validated

\* C21: once _validate has completed on a builder, a further _validate takes
\* no resolution step (it reads no path, control file or Dockerfile: no call
\* is logged) and leaves every field of the builder as it was; a _validate that
\* fails leaves the resolved flag unset.
C21_ValidateOnce == [][C21_Step]_vars

\* a second build() on a resolved builder has passed _validate with no call
\* made, and an earlier build() on this builder went through resolution
C21_Witness ==
    /\ buildNo = 2
    /\ pc = "connect"
    /\ builder.validated
    /\ steps = <<Step("validate", TRUE)>>
    /\ calls = << >>

(***************************************************************************)
(* Teardown and the resources of earlier build() calls (build.py:50-81,    *)
(* 560-633).                                                               *)
(***************************************************************************)
\* this build() call created an image / a container with identifier id
ImageCreatedHere(id) ==
    \E j \in CallIdx :
        calls[j].op = "build_image" /\ calls[j].out = "ok" /\ calls[j].id = id

ContainerCreatedHere(id) ==
    /\ id = buildNo
    /\ \E j \in CallIdx : calls[j].op = "run_container" /\ calls[j].out = "ok"

\* C28: the teardown of a build() call issues get/stop/remove only for the
\* container, and the image removal only for the image, that were created
\* during that same build() call.
C28_TeardownTargetsOwnResources ==
    \A i \in CallIdx :
        calls[i].step = "cleanup" =>
            IF calls[i].op = "remove_image"
            THEN ImageCreatedHere(calls[i].id)
            ELSE ContainerCreatedHere(calls[i].id)

\* the first build() on an instance tears down only what it created
C28_FirstBuildTargetsOwnResources ==
    buildNo = 1 => C28_TeardownTargetsOwnResources


(***************************************************************************)
(* The test phase (build.py:276-372).                                      *)
(***************************************************************************)
\* the test phase asked whether the makefile has target g and was told out
Consulted(g, out) ==
    AnyCall(LAMBDA c : c.op = "makefile_contains_target"
                       /\ c.argv = <<<<g>>>> /\ c.out = out)

\* the test phase ran make with target g
MakeRun(g) ==
    AnyCall(LAMBDA c : c.step = "tests" /\ c.op = "exec"
                       /\ c.argv = <<<<"make">>, <<g>>>>)

\* the build went on after the test phase: every call of the later steps
AfterTests ==
    SelectSeq(calls, LAMBDA c : c.step \in {"install", "collect", "manifest",
                                            "package"})

\* the test phase ended in an error and build() fails without running the
\* install command, collection or packaging
TestPhaseFatal ==
    /\ ~steps[5].ok
    /\ pending # NoExc
    /\ pc \in {"cleanup", "done"}
    /\ pc = "done" => result # NoExc
    /\ AfterTests = << >>
    /\ collected = << >> /\ archive = << >> /\ ~written

\* C23: in the installcheck path, when make install, the start of the
\* database engine or make installcheck fails (non-zero exit, engine not
\* started, or the call raising), build() raises and the install command,
\* collection and packaging never run.
C23_InstallcheckFailureIsFatal ==
    (InstallcheckFound /\ Ran(5)
       /\ \E i \in 1..Len(TestRuns) : TestRuns[i].out \in {"1", "raise", "failed"})
        => TestPhaseFatal

\* what does hold: a non-zero exit of make install or make installcheck, and
\* any of the three calls raising, is fatal
C23_ExitOrRaiseIsFatal ==
    (InstallcheckFound /\ Ran(5)
       /\ \E i \in 1..Len(TestRuns) : TestRuns[i].out \in {"1", "raise"})
        => TestPhaseFatal

\* the test phase of the current build() call has run
TestsRan == \E i \in StepIdx : steps[i].step = "tests"

\* C24: when the makefile has an installcheck target (whether or not it has
\* a check target too), the check target is not looked for and make check is
\* not run; the check target is looked for only right after the makefile was
\* found not to have an installcheck target.
C24_InstallcheckBeforeCheck ==
    /\ ("installcheck" \in makefile /\ TestsRan) =>
          /\ ~Consulted("check", "yes") /\ ~Consulted("check", "no")
          /\ ~Consulted("check", "raise")
          /\ ~MakeRun("check")
          /\ Len(TestRuns) >= 1
          /\ TestRuns[1].argv = <<<<"make">>, <<"install">>>>
    /\ \A i \in CallIdx :
          (calls[i].op = "makefile_contains_target"
             /\ calls[i].argv = <<<<"check">>>>) =>
              /\ i > 1
              /\ calls[i - 1].op = "makefile_contains_target"
              /\ calls[i - 1].argv = <<<<"installcheck">>>>
              /\ calls[i - 1].out = "no"
    /\ MakeRun("check") => Consulted("installcheck", "no")

\* a makefile with both targets: make installcheck ran, and the build goes on
C24_Witness ==
    /\ makefile = {"installcheck", "check"}
    /\ pc = "install"
    /\ Len(TestRuns) = 3
    /\ MakeRun("installcheck")
    /\ ~MakeRun("check")

\* the test phase had nothing to run
NoMakefile ==
    AnyCall(LAMBDA c : c.op = "locate_makefile" /\ c.out = "none")

NoTestTarget == Consulted("installcheck", "no") /\ Consulted("check", "no")

\* C25: when nothing is to be run the test phase returns normally without an
\* exec or engine start and build() goes on to the install command: with the
\* test flag unset it makes no call at all; with the flag set and no makefile
\* found, or a makefile with neither target, it only looked for them.
C25_NothingToRunIsNotFatal ==
    (Ran(5) /\ (~options.test \/ NoMakefile \/ NoTestTarget)) =>
        /\ steps[5].ok
        /\ TestRuns = << >>
        /\ ~options.test => CallsOf("tests") = << >>
        /\ Len(steps) = 5 => pc = "install"
        /\ Len(steps) >= 6 => steps[6].step = "install"

C25_Witness ==
    /\ options.test
    /\ NoTestTarget
    /\ Len(steps) >= 6
    /\ steps[6].step = "install"
    /\ AnyCall(LAMBDA c : c.step = "install" /\ c.op = "exec")


(***************************************************************************)
(* The sub-steps of teardown (build.py:613-633).                           *)
(***************************************************************************)
\* teardown found the container running and its stop call raised
StopRaised ==
    /\ AnyCall(LAMBDA c : c.step = "cleanup" /\ c.op = "get" /\ c.out = "running")
    /\ AnyCall(LAMBDA c : c.step = "cleanup" /\ c.op = "stop" /\ c.out = "raise")

\* C26: stop, remove and image removal are attempted independently of each
\* other: when the container was running and its stop call raised, teardown
\* still makes the remove call for that container (and the image removal).
C26_StopFailureDoesNotSkipRemove ==
    (pc = "done" /\ StopRaised) =>
        /\ \E i \in CallIdx : /\ calls[i].op = "remove"
                              /\ calls[i].id = builder.container_id
        /\ builder.image_id # 0 => ForcedImageRemoveIssued

\* what does hold: the image removal is attempted after a stop that raised
C26_StopFailureDoesNotSkipImageRemoval ==
    (pc = "done" /\ StopRaised /\ builder.image_id # 0) => ForcedImageRemoveIssued


(***************************************************************************)
(* License entries of the collected list (build.py:446-485, 533).          *)
(***************************************************************************)
\* the license paths copied out of the container, in the order of the copy
LicensesCopied ==
    LET cp == { i \in CallIdx :
                  /\ calls[i].op = "copy" /\ calls[i].out = "ok"
                  /\ \E j \in 1..(i - 1) : calls[j].op = "find_licenses" }
    IN  IF cp = {} THEN << >> ELSE calls[CHOOSE i \in cp : TRUE].argv

CollectReturned == \E i \in StepIdx : steps[i].step = "collect" /\ steps[i].ok

PackageRan == \E i \in StepIdx : steps[i].step = "package"

\* C27: the collected list is the changed files copied, then one entry per
\* license file copied, then (once packaging has begun) the manifest; the
\* archive path of a license entry is licenses/ followed by the base name of
\* the file, whatever directory of the container it came from.
C27_LicensesUnderLicensesByBaseName ==
    CollectReturned =>
        LET ch == ChangedFilesCopied
            lic == LicensesCopied
            n == Len(ch)
            m == Len(lic)
        IN  /\ Len(collected) = n + m + (IF PackageRan THEN 1 ELSE 0)
            /\ \A i \in 1..n : collected[i] = ch[i]
            /\ \A i \in 1..m :
                  /\ collected[n + i].arc =
                        <<"licenses", "/">> \o AfterLastSlash(lic[i])
                  /\ collected[n + i].arc =
                        <<"licenses", "/">> \o AfterLastSlash(collected[n + i].host)
                  /\ Len(collected[n + i].arc) = 3
            /\ PackageRan =>
                  collected[n + m + 1] = File(ManifestPath, MANIFEST_FILENAME)

\* a changed file, then two license files from different directories of the
\* container, then the manifest
C27_Witness ==
    /\ PackageRan
    /\ Len(collected) = 4
    /\ collected[1].arc = <<"lib", "/", "a.so">>
    /\ LicensesCopied = << <<"usr", "/", "share", "/", "COPYING">>,
                           <<"doc", "/", "LICENSE">> >>
    /\ collected[2].arc = <<"licenses", "/", "COPYING">>
    /\ collected[3].arc = <<"licenses", "/", "LICENSE">>
    /\ collected[4].arc = MANIFEST_FILENAME


(***************************************************************************)
(* Concurrent invocations (build.py:222-253, 613-633).                     *)
(***************************************************************************)
\* invocation p has asked the engine to build its image
Tagged(p) == inv[p].tag # << >>

\* C22: any two invocations running side by side against one engine use
\* different image tags and different containers, and no teardown call of one
\* stops or removes a container or image another one holds.
C22_ConcurrentBuildsDoNotInterfere ==
    /\ \A p, q \in DOMAIN inv :
          (p # q /\ Tagged(p) /\ Tagged(q)) => inv[p].tag # inv[q].tag
    /\ \A p, q \in DOMAIN inv :
          (p # q /\ inv[p].b.container_id # 0 /\ inv[q].b.container_id # 0)
              => inv[p].b.container_id # inv[q].b.container_id
    /\ \A r \in engine.removed : r.held = {}

\* what does hold: invocations whose process ids differ use different tags,
\* containers always differ, and a teardown call only ever hits an invocation
\* with the same process id, name and version
C22_DistinctPidsDoNotInterfere ==
    /\ \A p, q \in DOMAIN inv :
          (p # q /\ Tagged(p) /\ Tagged(q) /\ inv[p].pid # inv[q].pid)
              => inv[p].tag # inv[q].tag
    /\ \A p, q \in DOMAIN inv :
          (p # q /\ inv[p].b.container_id # 0 /\ inv[q].b.container_id # 0)
              => inv[p].b.container_id # inv[q].b.container_id
    /\ \A r \in engine.removed : \A q \in r.held :
          /\ r.op = "remove_image"
          /\ inv[q].pid = inv[r.by].pid
          /\ inv[q].b.final_name = inv[r.by].b.final_name
          /\ inv[q].b.final_version = inv[r.by].b.final_version

============================================================================
